---- MODULE Spec2Model ----
(***************************************************************************)
(* Model of the raspi-internet-speed-monitor core: the SQLite result store *)
(* (app/database.py), the measurement runner with its retrying write path  *)
(* (app/speedtest_runner.py), the scheduler (app/scheduler.py) and the     *)
(* Google Sheets exporter (app/exporter.py) with its service loop          *)
(* (app/exporter_service.py) and the dashboard's statistics                *)
(* (app/dashboard.py).                                                     *)
(*                                                                         *)
(* The specifications share the variables:                                 *)
(*   SpecStore      - the Database API called by arbitrary callers         *)
(*   SpecRoundTrip  - insert_result and get_latest on records of all shapes*)
(*   SpecReopen     - Database instances created one after the other on    *)
(*                    one file                                             *)
(*   SpecRunner     - the runner job: run_and_store and store_result       *)
(*   SpecCron       - the construction of a Scheduler on any cron string   *)
(*   SpecScheduler  - Scheduler.run and stop with the job scheduler thread *)
(*                    and the callback; SpecSchedulerFair adds fairness    *)
(*   SpecInterrupt  - Scheduler.run whose wait loop may be interrupted         *)
(*   SpecExporter   - authenticate, export_result and retry_failed_exports *)
(*   SpecMain       - exporter_service.main() up to its check of the       *)
(*                    enabled flag, in every environment                   *)
(*   SpecLoop       - exporter_service.main() from the creation of the     *)
(*                    exporter on, with the speedtest service writing to   *)
(*                    the store; SpecLoopFair adds fairness                *)
(*   SpecRestart    - the export loop of a process that may be restarted      *)
(*   SpecStats      - GET /api/stats on a store that is written to         *)
(*   SpecAtomic     - the Database writes with statements that may fail    *)
(*   SpecWriters    - speedtest_service: the runner job and the daily      *)
(*                    cleanup writing to one Database from two threads    *)
(***************************************************************************)
EXTENDS Integers, Sequences, FiniteSets, TLC

VARIABLES
    speed_tests,      \* rows of table speed_tests
    sqlite_sequence,  \* AUTOINCREMENT bookkeeping: largest rowid ever issued
    issued,           \* history: ids returned by insert_result, in call order
    given,            \* history: the records, as handed to insert_result, of the rows
    op,               \* last Database API call of an outside caller and its return
    pc,               \* position of the runner job
    mode,             \* which entry point the runner job was called through
    result,           \* the SpeedTestResult the runner job works on
    retries,          \* store_result: parameter retries
    attempt,          \* store_result: loop variable attempt
    wait,             \* store_result: local wait
    log,              \* history: insert calls and sleeps of this store_result call
    stored,           \* return value of store_result
    run_ret,          \* return value of run_and_store
    measured,         \* history: outcome of the measurement operation
    seq0,             \* history: sqlite_sequence when this runner call began
    instance,         \* how many Database instances were created on the file so far
    at_open,          \* history: the stored records when the newest instance was created
    cron,             \* history: the cron argument of Scheduler.__init__
    _cron,            \* Scheduler._cron, None before the Scheduler is constructed
    run_pc,           \* position of Scheduler.run()
    _stop_event,      \* Scheduler._stop_event
    stop_calls,       \* history: whether stop() was called, and whether before run()
    sched_state,      \* state of the BackgroundScheduler built by run()
    clock,            \* wall clock, in fire intervals of the schedule
    start_time,       \* history: the wall clock when run() started the job scheduler
    next_run_time,    \* the job's next fire time
    instances,        \* running instances of the job
    fired,            \* history: the fire times the callback was invoked for, and how it ended
    _worksheet,       \* GoogleSheetsExporter._worksheet
    _retry_queue,     \* GoogleSheetsExporter._retry_queue
    sheet,            \* rows of the worksheet, in append order
    exp,              \* last exporter call and its return
    forwarded,        \* history: how many records export_result was called with
    main_pc,          \* position of exporter_service.main()
    environ,          \* history: os.environ when main() was called
    main_exc,         \* the exception that ended main(), None when there is none
    main_last_id,     \* main: the cursor, local last_id
    since_retry,      \* main: monotonic clock minus last_retry_time, up to RETRY_INTERVAL
    new_results,      \* main: the list the last poll_database returned
    handed,           \* history: the records of new_results handed to export_result
    cursor_before,    \* history: last_id when the last poll_database was called
    handed_count,     \* history: how often each id was handed to export_result
    sink_ok,          \* the sink accepts every append from now on
    conn              \* speedtest service: its Database's connections and its two writer threads

vars == <<speed_tests, sqlite_sequence, issued, given, op, pc, mode, result, retries,
          attempt, wait, log, stored, run_ret, measured, seq0, instance, at_open,
          cron, _cron, run_pc, _stop_event, stop_calls, sched_state, clock, start_time,
          next_run_time, instances, fired, _worksheet, _retry_queue, sheet, exp, forwarded,
          main_pc, environ, main_exc, main_last_id, since_retry, new_results, handed,
          cursor_before, handed_count, sink_ok, conn>>

storeVars == <<speed_tests, sqlite_sequence, issued, given>>
runnerVars == <<pc, mode, result, retries, attempt, wait, log, stored, run_ret,
                measured, seq0>>
fileVars == <<instance, at_open, conn>>
schedVars == <<cron, _cron, run_pc, _stop_event, stop_calls, sched_state, clock, start_time,
               next_run_time, instances, fired>>
exporterVars == <<_worksheet, _retry_queue, sheet, exp, forwarded>>
mainVars == <<main_pc, environ, main_exc, main_last_id, since_retry, new_results, handed,
              cursor_before, handed_count, sink_ok>>
otherVars == <<fileVars, schedVars, exporterVars, mainVars>>

----------------------------------------------------------------------------
(* Bounds *)

MaxDay == 1        \* timestamps lie on days 0..MaxDay
MaxMicro == 1      \* with a sub-second part of 0..MaxMicro microseconds
MaxSeq == 2        \* at most MaxSeq rows are ever inserted
MaxRetriesArg == 3 \* store_result is called with retries in 0..MaxRetriesArg
MaxLimit == 3      \* get_latest is called with limit in 0..MaxLimit
MaxRetention == 1  \* cleanup_old_data is called with retention_days in -1..MaxRetention
MaxInstances == 2  \* at most MaxInstances Database instances are created on the file
MaxFields == 6     \* cron strings have 0..MaxFields whitespace-separated fields
MaxTime == 3       \* the wall clock runs over 0..MaxTime fire intervals
MaxExports == 2    \* export_result is called at most MaxExports times

(* Program constants *)

MAX_RETRIES == 3
BITS_PER_MEGABIT == 1000000

----------------------------------------------------------------------------
(* Optional values: None is the empty tuple, Some(x) a one-element tuple *)

None == <<>>
Some(x) == <<x>>

(* Text is a sequence of character codes *)

CHAR_SPACE == 32
CHAR_DOT == 46
CHAR_0 == 48
CHAR_COLON == 58
CHAR_T == 84

Digit(n) == CHAR_0 + n

RECURSIVE Pow(_, _)
Pow(b, e) == IF e = 0 THEN 1 ELSE b * Pow(b, e - 1)

\* n rendered in exactly w decimal digits, zero padded ("%0wd")
RECURSIVE ZeroPad(_, _)
ZeroPad(n, w) == IF w = 0 THEN <<>> ELSE Append(ZeroPad(n \div 10, w - 1), Digit(n % 10))

\* the digits of a text read back as a number
RECURSIVE ParseInt(_)
ParseInt(s) ==
    IF s = <<>> THEN 0
    ELSE 10 * ParseInt(SubSeq(s, 1, Len(s) - 1)) + (s[Len(s)] - CHAR_0)

\* memcmp order of SQLite's BINARY collation: s < t
RECURSIVE TextLess(_, _)
TextLess(s, t) ==
    IF t = <<>> THEN FALSE
    ELSE IF s = <<>> THEN TRUE
    ELSE IF s[1] # t[1] THEN s[1] < t[1]
    ELSE TextLess(Tail(s), Tail(t))

TextLeq(s, t) == s = t \/ TextLess(s, t)

----------------------------------------------------------------------------
(* Naive datetimes: a day ordinal and the microseconds into that day's     *)
(* first second; day 0 is datetime.min's day                                *)

Timestamps == [day : 0..MaxDay, us : 0..MaxMicro]

DtLess(a, b) == a.day < b.day \/ (a.day = b.day /\ a.us < b.us)
DtLeq(a, b) == a = b \/ DtLess(a, b)

TIME_OF_DAY == <<CHAR_T, CHAR_0, CHAR_0, CHAR_COLON, CHAR_0, CHAR_0, CHAR_COLON, CHAR_0, CHAR_0>>

\* datetime.isoformat(sep=" "): the text of isoformat() with a space for the 'T'
IsoFormatSep(dt) ==
    ZeroPad(dt.day, 2) \o <<CHAR_SPACE>> \o Tail(TIME_OF_DAY)
        \o (IF dt.us = 0 THEN <<>> ELSE <<CHAR_DOT>> \o ZeroPad(dt.us, 6))

\* mutant: the text is written to the second, without the microseconds
IsoFormatSeconds(dt) == ZeroPad(dt.day, 2) \o TIME_OF_DAY

\* datetime.isoformat(): date, 'T', time, and ".ffffff" only when microsecond # 0
IsoFormat(dt) ==
    ZeroPad(dt.day, 2) \o TIME_OF_DAY
        \o (IF dt.us = 0 THEN <<>> ELSE <<CHAR_DOT>> \o ZeroPad(dt.us, 6))

\* datetime.fromisoformat() on the texts isoformat() writes
FromIsoFormat(s) ==
    [day |-> ParseInt(SubSeq(s, 1, 2)),
     us  |-> IF Len(s) > 2 + Len(TIME_OF_DAY)
             THEN ParseInt(SubSeq(s, 2 + Len(TIME_OF_DAY) + 2, Len(s)))
             ELSE 0]

----------------------------------------------------------------------------
(* SpeedTestResult (app/models.py) and the rows of table speed_tests       *)

\* the record fields besides timestamp and id that callers hand to the store
Payloads ==
    { [download_mbps |-> 95, upload_mbps |-> 12, ping_ms |-> 15,
       test_server |-> Some("host"), success |-> TRUE, error_message |-> None] }

SpeedTestResult(ts, p, id) ==
    [timestamp |-> ts, download_mbps |-> p.download_mbps, upload_mbps |-> p.upload_mbps,
     ping_ms |-> p.ping_ms, test_server |-> p.test_server, success |-> p.success,
     error_message |-> p.error_message, id |-> id]

\* records not yet inserted, as callers of the Database API build them
NewResults == { SpeedTestResult(ts, p, None) : ts \in Timestamps, p \in Payloads }

\* the valid records: with and without a server label, of a successful and
\* of a failed measurement (the rates stand for the doubles a REAL column
\* stores unchanged)
ValidPayloads ==
    Payloads \cup
    { [download_mbps |-> 50, upload_mbps |-> 7, ping_ms |-> 3,
       test_server |-> None, success |-> TRUE, error_message |-> None],
      [download_mbps |-> 0, upload_mbps |-> 0, ping_ms |-> 0,
       test_server |-> None, success |-> FALSE, error_message |-> Some("error")] }

ValidResults == { SpeedTestResult(ts, p, None) : ts \in Timestamps, p \in ValidPayloads }

\* the row INSERT writes for a result: timestamp as isoformat text, success as 0/1
RowOf(r, rowid) ==
    [id |-> rowid, timestamp |-> IsoFormat(r.timestamp),
     download_mbps |-> r.download_mbps, upload_mbps |-> r.upload_mbps,
     ping_ms |-> r.ping_ms, test_server |-> r.test_server,
     success |-> IF r.success THEN 1 ELSE 0, error_message |-> r.error_message]

_row_to_result(row) ==
    [id |-> Some(row.id), timestamp |-> FromIsoFormat(row.timestamp),
     download_mbps |-> row.download_mbps, upload_mbps |-> row.upload_mbps,
     ping_ms |-> row.ping_ms, test_server |-> row.test_server,
     success |-> row.success # 0, error_message |-> row.error_message]

----------------------------------------------------------------------------
(* SQL of app/database.py                                                  *)

\* mutant: INTEGER PRIMARY KEY without AUTOINCREMENT, one more than the
\* largest rowid now in the table
NextRowidOfTable ==
    IF speed_tests = {} THEN 1
    ELSE 1 + CHOOSE m \in {row.id : row \in speed_tests} :
                 \A row \in speed_tests : row.id <= m

\* INTEGER PRIMARY KEY AUTOINCREMENT: one more than the largest rowid ever
\* issued, kept in sqlite_sequence and so not lowered by DELETE
NextRowid == sqlite_sequence + 1

\* LIMIT n: the first n rows; a negative n is no limit
Limit(f, n) == IF n < 0 \/ n >= Len(f) THEN f ELSE SubSeq(f, 1, n)

\* ORDER BY timestamp ASC
TimestampAsc(a, b) == TextLeq(a.timestamp, b.timestamp)

\* mutant: get_latest orders oldest first
TimestampDescReversed(a, b) == TextLeq(a.timestamp, b.timestamp)

\* ORDER BY timestamp DESC
TimestampDesc(a, b) == TextLeq(b.timestamp, a.timestamp)

\* mutant: get_results_after orders by timestamp
IdAscByTimestamp(a, b) == TextLeq(a.timestamp, b.timestamp)

\* ORDER BY id ASC
IdAsc(a, b) == a.id <= b.id

\* the ORDER BY clauses of the three SELECTs
Before(clause, a, b) ==
    CASE clause = "timestamp ASC" -> TimestampAsc(a, b)
      [] clause = "timestamp DESC" -> TimestampDesc(a, b)
      [] clause = "id ASC" -> IdAsc(a, b)

\* all orders in which SQL may return the rows S under an ORDER BY clause:
\* every arrangement of S that puts no row before one the clause ranks
\* ahead of it; rows with equal sort keys come in either order
OrderBy(S, clause) ==
    { f \in [1..Cardinality(S) -> S] :
        /\ \A i, j \in 1..Cardinality(S) : i # j => f[i] # f[j]
        /\ \A i, j \in 1..Cardinality(S) : i < j => Before(clause, f[i], f[j]) }

\* mutant: the end of the window is excluded
InRangeExclusiveEnd(row, start, end) ==
    /\ TextLeq(IsoFormat(start), row.timestamp)
    /\ TextLess(row.timestamp, IsoFormat(end))

\* WHERE timestamp >= ? AND timestamp <= ?
InRange(row, start, end) ==
    /\ TextLeq(IsoFormat(start), row.timestamp)
    /\ TextLeq(row.timestamp, IsoFormat(end))

\* mutant: the query also returns the row at the cursor
AfterIdInclusive(row, last_id) == row.id >= last_id

\* WHERE id > ?
AfterId(row, last_id) == row.id > last_id

\* WHERE timestamp < ?  (cleanup's DELETE)
OlderThan(row, cutoff) == TextLess(row.timestamp, IsoFormat(cutoff))

Results(rows) == [i \in 1..Len(rows) |-> _row_to_result(rows[i])]

\* the possible return values of the three read queries
query_range(start, end) ==
    { Results(f) : f \in OrderBy({r \in speed_tests : InRange(r, start, end)}, "timestamp ASC") }

get_latest(limit) ==
    { Results(Limit(f, limit)) : f \in OrderBy(speed_tests, "timestamp DESC") }

get_results_after(last_id) ==
    { Results(f) : f \in OrderBy({r \in speed_tests : AfterId(r, last_id)}, "id ASC") }

count == Cardinality(speed_tests)

----------------------------------------------------------------------------
(* State after construction: Database.__init__ created the empty table,    *)
(* SpeedtestRunner.__init__ holds the database, no job is running          *)

\* the two threads of speedtest_service that write to its Database: the
\* Scheduler's job thread (run_speedtest_job) and the cleanup scheduler's
Threads == {"job", "cleanup"}

\* speedtest_service.main() has not created its Database
NoService ==
    [db_path |-> "", pc |-> [t \in Threads |-> "idle"],
     in_transaction |-> FALSE, writer |-> "nobody", snapshot |-> <<>>,
     found |-> [t \in Threads |-> FALSE], at_start |-> <<>>,
     call |-> [t \in Threads |-> <<>>]]

Constructed ==
    /\ speed_tests = {}
    /\ sqlite_sequence = 0
    /\ issued = <<>>
    /\ given = {}
    /\ op = [kind |-> "none"]
    /\ pc = "idle"
    /\ mode = "none"
    /\ result = None
    /\ retries = 0
    /\ attempt = 0
    /\ wait = 0
    /\ log = <<>>
    /\ stored = None
    /\ run_ret = None
    /\ measured = "none"
    /\ seq0 = 0
    /\ instance = 1
    /\ at_open = {}
    /\ cron = None
    /\ _cron = None
    /\ run_pc = "unconstructed"
    /\ _stop_event = FALSE
    /\ stop_calls = "never"
    /\ sched_state = "none"
    /\ clock = 0
    /\ start_time = 0
    /\ next_run_time = 0
    /\ instances = 0
    /\ fired = <<>>
    /\ _worksheet = None
    /\ _retry_queue = <<>>
    /\ sheet = <<>>
    /\ exp = [kind |-> "none"]
    /\ forwarded = 0
    /\ conn = NoService

\* exporter_service.main() at position at, with the locals of its loop unset
MainAt(at) ==
    /\ main_pc = at
    /\ environ = <<>>
    /\ main_exc = None
    /\ main_last_id = 0
    /\ since_retry = 0
    /\ new_results = <<>>
    /\ handed = <<>>
    /\ cursor_before = 0
    /\ handed_count = [i \in 1..MaxSeq |-> 0]
    /\ sink_ok = FALSE

Init == Constructed /\ MainAt("unstarted")

----------------------------------------------------------------------------
(* Database writes. _execute(write=True) runs the statement in one         *)
(* transaction: it either commits whole or raises and leaves no trace      *)

\* mutant: the statement is INSERT OR REPLACE on the first row's id
InsertReplacesFirst(r) ==
    /\ speed_tests' = {row \in speed_tests : row.id # 1} \cup {RowOf(r, 1)}
    /\ sqlite_sequence' = NextRowid
    /\ issued' = Append(issued, 1)
    /\ given' = given \cup {[r EXCEPT !.id = Some(1)]}

\* the INSERT of insert_result committed; its return value is NextRowid
InsertCommit(r) ==
    /\ speed_tests' = speed_tests \cup {RowOf(r, NextRowid)}
    /\ sqlite_sequence' = NextRowid
    /\ issued' = Append(issued, NextRowid)
    /\ given' = given \cup {[r EXCEPT !.id = Some(NextRowid)]}

\* mutant: the INSERT raised after its row was written and is not rolled back
InsertRollbackKeepsRow(r) == InsertCommit(r)

\* the INSERT raised: "with conn" rolled the transaction back
InsertRollback(r) == UNCHANGED storeVars

\* Database.insert_result called by an outside caller
InsertResult(r, ok) ==
    /\ op.kind = "none"
    /\ sqlite_sequence < MaxSeq
    /\ IF ok
       THEN /\ InsertCommit(r)
            /\ op' = [kind |-> "insert_result", raised |-> FALSE, ret |-> NextRowid]
       ELSE /\ InsertRollback(r)
            /\ op' = [kind |-> "insert_result", raised |-> TRUE]
    /\ UNCHANGED <<runnerVars, otherVars>>

\* cutoff = _utcnow() - timedelta(days=retention_days); datetime arithmetic
\* below datetime.min raises OverflowError
CutoffOverflows(now, retention_days) == now.day - retention_days < 0
Cutoff(now, retention_days) == [day |-> now.day - retention_days, us |-> now.us]

\* mutant: only a retention of exactly zero days skips the cleanup
RetentionDisabledZeroOnly(retention_days) == retention_days = 0

\* if retention_days <= 0: return 0
RetentionDisabled(retention_days) == retention_days <= 0

\* Database.cleanup_old_data, with the wall clock reading now
CleanupOldData(retention_days, now) ==
    /\ op.kind = "none"
    /\ IF RetentionDisabled(retention_days)
       THEN /\ op' = [kind |-> "cleanup_old_data", retention_days |-> retention_days,
                      now |-> now, raised |-> FALSE, ret |-> 0]
            /\ UNCHANGED <<speed_tests, given>>
       ELSE IF CutoffOverflows(now, retention_days)
       THEN /\ op' = [kind |-> "cleanup_old_data", retention_days |-> retention_days,
                      now |-> now, raised |-> TRUE]
            /\ UNCHANGED <<speed_tests, given>>
       ELSE LET deleted == {r \in speed_tests : OlderThan(r, Cutoff(now, retention_days))}
            IN /\ speed_tests' = speed_tests \ deleted
               /\ given' = {g \in given : \A row \in deleted : g.id # Some(row.id)}
               /\ op' = [kind |-> "cleanup_old_data", retention_days |-> retention_days,
                         now |-> now, raised |-> FALSE, ret |-> Cardinality(deleted)]
    /\ UNCHANGED <<sqlite_sequence, issued>>
    /\ UNCHANGED <<runnerVars, otherVars>>

\* the rows the DELETE statement selects: timestamp < cutoff
DeleteVictims(now, retention_days) ==
    {r \in speed_tests : OlderThan(r, Cutoff(now, retention_days))}

\* mutant: the rows deleted before the error stay deleted
DeleteRollbackKeepsDeletes(now, retention_days) ==
    /\ speed_tests' = speed_tests \ DeleteVictims(now, retention_days)
    /\ given' = {g \in given :
                    \A row \in DeleteVictims(now, retention_days) : g.id # Some(row.id)}

\* the DELETE raised inside "with conn": the transaction is rolled back
DeleteRollback(now, retention_days) == UNCHANGED <<speed_tests, given>>

\* Database.cleanup_old_data when the DELETE statement raises sqlite3.Error
\* (database locked, disk full, I/O error); the error leaves _execute and
\* cleanup_old_data uncaught
CleanupOldDataFails(retention_days, now) ==
    /\ op.kind = "none"
    /\ ~RetentionDisabled(retention_days)
    /\ ~CutoffOverflows(now, retention_days)
    /\ DeleteRollback(now, retention_days)
    /\ op' = [kind |-> "cleanup_old_data", retention_days |-> retention_days,
              now |-> now, raised |-> TRUE]
    /\ UNCHANGED <<sqlite_sequence, issued>>
    /\ UNCHANGED <<runnerVars, otherVars>>

\* the outside caller has the return value (or the exception) of its call
CallReturns ==
    /\ op.kind # "none"
    /\ op' = [kind |-> "none"]
    /\ UNCHANGED storeVars
    /\ UNCHANGED <<runnerVars, otherVars>>

\* mutant: the schema script drops the table before it creates it
_init_schema_recreates(tables) == [speed_tests |-> {}]

\* executescript(SCHEMA) on the tables of the file: CREATE TABLE IF NOT EXISTS
\* creates the empty table only when the file has none
_init_schema(tables) ==
    IF "speed_tests" \in DOMAIN tables THEN tables ELSE [speed_tests |-> {}]

\* Database(db_path) on the file of the earlier instances, which hold no open
\* connection: a file-based Database closes its connection after every call
Reopen ==
    /\ op.kind = "none"
    /\ instance < MaxInstances
    /\ instance' = instance + 1
    /\ speed_tests' = _init_schema([speed_tests |-> speed_tests]).speed_tests
    /\ at_open' = given
    /\ UNCHANGED <<sqlite_sequence, issued, given, op, conn>>
    /\ UNCHANGED <<runnerVars, schedVars, exporterVars, mainVars>>

(* Database reads, called by an outside caller *)

QueryRange(start, end) ==
    /\ op.kind = "none"
    /\ \E res \in query_range(start, end) :
          op' = [kind |-> "query_range", start |-> start, end |-> end, ret |-> res]
    /\ UNCHANGED storeVars
    /\ UNCHANGED <<runnerVars, otherVars>>

GetLatest(limit) ==
    /\ op.kind = "none"
    /\ \E res \in get_latest(limit) :
          op' = [kind |-> "get_latest", limit |-> limit, ret |-> res]
    /\ UNCHANGED storeVars
    /\ UNCHANGED <<runnerVars, otherVars>>

GetResultsAfter(last_id) ==
    /\ op.kind = "none"
    /\ \E res \in get_results_after(last_id) :
          op' = [kind |-> "get_results_after", last_id |-> last_id, ret |-> res]
    /\ UNCHANGED storeVars
    /\ UNCHANGED <<runnerVars, otherVars>>

----------------------------------------------------------------------------
(* SpeedtestRunner.execute_test                                            *)

\* the places inside the try block where the measurement operation can raise
RaisePoints ==
    {"import", "Speedtest", "get_best_server", "server_info", "download", "upload", "results"}

\* the exception each place raises
ExceptionAt(place) ==
    CASE place = "import" -> "ImportError"
      [] place = "results" -> "KeyError"
      [] place = "server_info" -> "AttributeError"
      [] OTHER -> "SpeedtestException"

\* the exceptions insert_result raises
InsertErrors == {"OperationalError", "IntegrityError", "Exception"}

\* mutant: execute_test catches the measurement library's exceptions only
ExecuteTestCatchesSpeedtestOnly(exc) == exc = "SpeedtestException"

\* "except Exception" of execute_test: every subclass of Exception is caught
ExecuteTestCatches(exc) ==
    exc \in {"ImportError", "KeyError", "AttributeError", "SpeedtestException",
             "OperationalError", "IntegrityError", "Exception"}

\* mutant: store_result catches sqlite3.Error only
StoreResultCatchesSqliteOnly(exc) == exc \in {"OperationalError", "IntegrityError"}

\* "except Exception" of store_result
StoreResultCatches(exc) ==
    exc \in {"ImportError", "KeyError", "AttributeError", "SpeedtestException",
             "OperationalError", "IntegrityError", "Exception"}

\* what the measurement operation does: it raises at one of the places, or
\* runs through and st.results.dict() holds the metrics (rates in bit/s)
Measurements ==
    [raises_at : RaisePoints, results : {None}]
    \cup [raises_at : {"none"},
          results : { Some(d) : d \in [download : {95 * BITS_PER_MEGABIT},
                                         upload : {12 * BITS_PER_MEGABIT},
                                         ping : {15},
                                         host : {Some("host")}] }]

\* str(exc) of the exception raised at a place
Message(place) == "error"

\* the record of the except branch
FailureResult(now, exc) ==
    [timestamp |-> now, download_mbps |-> 0, upload_mbps |-> 0, ping_ms |-> 0,
     test_server |-> None, success |-> FALSE, error_message |-> Some(exc), id |-> None]

\* the record of the try branch
SuccessResult(now, d) ==
    [timestamp |-> now, download_mbps |-> d.download \div BITS_PER_MEGABIT,
     upload_mbps |-> d.upload \div BITS_PER_MEGABIT, ping_ms |-> d.ping,
     test_server |-> d.host, success |-> TRUE, error_message |-> None, id |-> None]

execute_test(m, now) ==
    IF m.raises_at # "none"
    THEN FailureResult(now, Message(m.raises_at))
    ELSE SuccessResult(now, m.results[1])

----------------------------------------------------------------------------
(* SpeedtestRunner.store_result and run_and_store, one step per insert     *)
(* attempt and per sleep                                                   *)

\* mutant: one iteration too many
LoopContinuesOffByOne(k, n) == k <= n

\* for attempt in range(retries)
LoopContinues(k, n) == k < n

InsertEvent(ok) == [e |-> "insert", ok |-> ok]
SleepEvent(secs) == [e |-> "sleep", secs |-> secs]

\* mutant: the first wait is 2 s
BackoffFromTwo(k) == Pow(2, k + 1)

\* wait = 2 ** attempt
Backoff(k) == Pow(2, k)

\* is_last = attempt == retries - 1
IsLast(k, n) == k = n - 1

\* mutant: a stored failure record is not returned
RunAndStoreValueSuccessOnly(ok, r) == IF ok /\ r.success THEN Some(r) ELSE None

\* run_and_store: return result if stored else None
RunAndStoreValue(ok, r) == IF ok THEN Some(r) ELSE None

\* store_result returns ok; run_and_store, when it is the caller, returns too
Return(ok, r) ==
    /\ stored' = Some(ok)
    /\ run_ret' = IF mode = "run_and_store" THEN RunAndStoreValue(ok, r) ELSE None
    /\ pc' = "done"

\* run_and_store is triggered: execute_test runs, store_result is entered
RunAndStore(m, now) ==
    /\ pc = "idle"
    /\ sqlite_sequence < MaxSeq
    /\ mode' = "run_and_store"
    /\ measured' = m.raises_at
    /\ seq0' = sqlite_sequence
    /\ IF m.raises_at # "none" /\ ~ExecuteTestCatches(ExceptionAt(m.raises_at))
       THEN /\ pc' = "execute_test_raised"
            /\ UNCHANGED <<result, retries>>
       ELSE /\ result' = Some(execute_test(m, now))
            /\ retries' = MAX_RETRIES
            /\ pc' = "store"
    /\ attempt' = 0
    /\ UNCHANGED <<wait, log, stored, run_ret, op, otherVars>>
    /\ UNCHANGED storeVars

\* store_result(r, retries=n) is called directly
StoreResult(r, n) ==
    /\ pc = "idle"
    /\ sqlite_sequence < MaxSeq
    /\ mode' = "store_result"
    /\ result' = Some(r)
    /\ retries' = n
    /\ seq0' = sqlite_sequence
    /\ attempt' = 0
    /\ pc' = "store"
    /\ UNCHANGED <<wait, log, stored, run_ret, measured, op, otherVars>>
    /\ UNCHANGED storeVars

\* an iteration of the for loop whose insert_result returns
AttemptSucceeds ==
    /\ pc = "store"
    /\ LoopContinues(attempt, retries)
    /\ InsertCommit(result[1])
    /\ log' = Append(log, InsertEvent(TRUE))
    /\ result' = Some([result[1] EXCEPT !.id = Some(NextRowid)])
    /\ Return(TRUE, [result[1] EXCEPT !.id = Some(NextRowid)])
    /\ UNCHANGED <<mode, retries, attempt, wait, measured, seq0, op, otherVars>>

\* an iteration of the for loop whose insert_result raises exc
AttemptFails(exc) ==
    /\ pc = "store"
    /\ LoopContinues(attempt, retries)
    /\ InsertRollback(result[1])
    /\ log' = Append(log, InsertEvent(FALSE))
    /\ IF ~StoreResultCatches(exc)
       THEN /\ pc' = "store_result_raised"
            /\ UNCHANGED <<attempt, wait>>
       ELSE IF IsLast(attempt, retries)
       THEN /\ attempt' = attempt + 1
            /\ UNCHANGED <<pc, wait>>
       ELSE /\ wait' = Backoff(attempt)
            /\ pc' = "sleep"
            /\ UNCHANGED attempt
    /\ UNCHANGED <<mode, result, retries, stored, run_ret, measured, seq0, op, otherVars>>

\* time.sleep(wait), then the next iteration
Sleep ==
    /\ pc = "sleep"
    /\ log' = Append(log, SleepEvent(wait))
    /\ attempt' = attempt + 1
    /\ pc' = "store"
    /\ UNCHANGED <<mode, result, retries, wait, stored, run_ret, measured, seq0, op, otherVars>>
    /\ UNCHANGED storeVars

\* the for loop is over without a return: return False
Exhausted ==
    /\ pc = "store"
    /\ ~LoopContinues(attempt, retries)
    /\ Return(FALSE, result[1])
    /\ UNCHANGED <<mode, result, retries, attempt, wait, log, measured, seq0, op, otherVars>>
    /\ UNCHANGED storeVars

\* the caller has the return value (or the exception); the runner waits for
\* the next trigger
Finish ==
    /\ pc \in {"done", "execute_test_raised", "store_result_raised"}
    /\ pc' = "idle"
    /\ mode' = "none"
    /\ result' = None
    /\ retries' = 0
    /\ attempt' = 0
    /\ wait' = 0
    /\ log' = <<>>
    /\ stored' = None
    /\ run_ret' = None
    /\ measured' = "none"
    /\ seq0' = 0
    /\ UNCHANGED <<op, otherVars>>
    /\ UNCHANGED storeVars

----------------------------------------------------------------------------
(* Scheduler (app/scheduler.py): the schedule                              *)

\* a cron string is the sequence of its whitespace-separated fields, as
\* expression.split() yields them; a field is "*", a number or another word
CronTokens == {"*", "25", "60", "x"}

\* the cron strings of n fields
CronStringsOf(n) == [1..n -> CronTokens]

DEFAULT_CRON == <<"0", "*", "*", "*", "*">>

IsNumber(tok) == tok \in {"0", "25", "60"}
NumberOf(tok) == CASE tok = "0" -> 0 [] tok = "25" -> 25 [] tok = "60" -> 60

\* croniter's field ranges: minute, hour, day of month, month, day of week,
\* and the optional sixth field, second
RANGES == << <<0, 59>>, <<0, 23>>, <<1, 31>>, <<1, 12>>, <<0, 6>>, <<0, 59>> >>

FieldValid(tok, i) ==
    \/ tok = "*"
    \/ IsNumber(tok) /\ RANGES[i][1] <= NumberOf(tok) /\ NumberOf(tok) <= RANGES[i][2]

\* croniter.is_valid(expression): five fields, or six with a seconds field
croniter_is_valid(expression) ==
    /\ Len(expression) \in {5, 6}
    /\ \A i \in 1..Len(expression) : FieldValid(expression[i], i)

\* Scheduler.validate_cron: is_valid, and False when it raises
validate_cron(expression) == croniter_is_valid(expression)

\* Scheduler._resolve_cron
_resolve_cron(expression) ==
    IF validate_cron(expression) THEN expression ELSE DEFAULT_CRON

\* Scheduler(cron, on_trigger)
SchedulerNew(expression) ==
    /\ run_pc = "unconstructed"
    /\ cron' = Some(expression)
    /\ _cron' = Some(_resolve_cron(expression))
    /\ run_pc' = "idle"
    /\ _stop_event' = FALSE
    /\ UNCHANGED <<stop_calls, sched_state, clock, start_time, next_run_time, instances, fired>>
    /\ UNCHANGED <<storeVars, op, runnerVars, fileVars, exporterVars, mainVars>>

----------------------------------------------------------------------------
(* Scheduler.run and stop, and the BackgroundScheduler that run() builds.  *)
(* The unit of the wall clock is the interval between two fire times of    *)
(* the schedule: the clock reading k stands for the time from fire time k  *)
(* up to fire time k + 1. The scheduler thread wakes at each fire time and *)
(* processes the job before the next one.                                  *)

\* the schedules the service is constructed with: the default, one with an
\* out-of-range field, one of six fields
SchedCrons ==
    { DEFAULT_CRON, <<"60", "*", "*", "*", "*">>, <<"*", "*", "*", "*", "*", "*">> }

\* add_job without max_instances: the job default, one running instance
MAX_INSTANCES == 1

\* the exceptions the trigger callback raises
JobErrors == {"RuntimeError", "ValueError"}

\* mutant: the job's exception ends the thread that schedules it
RunJobCatchesNothing(exc) == FALSE

\* the executor of the BackgroundScheduler runs the job in a pool thread and
\* catches and logs whatever it raises
RunJobCatches(exc) == exc \in JobErrors

\* mutant: the loop never looks at the stop event
LoopNeverExits(stop) == FALSE

\* while not self._stop_event.is_set()
LoopExits(stop) == stop

\* mutant: run() returns without shutting the job scheduler down
ShutsDownNever(state) == FALSE

\* if self._scheduler and self._scheduler.running
ShutsDown(state) == state = "running"

FireEvent(t, end) == [time |-> t, end |-> end]

\* the position of the entry of the running job instance in fired
Running == CHOOSE i \in 1..Len(fired) : fired[i].end = "running"

\* run() up to the loop: _build_scheduler unpacks the five fields of the
\* schedule (ValueError for another count) and the job scheduler is started;
\* the job's first fire time is the next one after now
RunStart ==
    /\ run_pc = "idle"
    /\ IF Len(_cron[1]) # 5
       THEN /\ run_pc' = "build_raised"
            /\ UNCHANGED <<sched_state, start_time, next_run_time>>
       ELSE /\ run_pc' = "check"
            /\ sched_state' = "running"
            /\ start_time' = clock
            /\ next_run_time' = clock + 1
    /\ UNCHANGED <<cron, _cron, _stop_event, stop_calls, clock, instances, fired>>
    /\ UNCHANGED <<storeVars, op, runnerVars, fileVars, exporterVars, mainVars>>

\* the loop condition
RunCheck ==
    /\ run_pc = "check"
    /\ run_pc' = IF LoopExits(_stop_event) THEN "finally" ELSE "sleep"
    /\ UNCHANGED <<cron, _cron, _stop_event, stop_calls, sched_state, clock, start_time,
                   next_run_time, instances, fired>>
    /\ UNCHANGED <<storeVars, op, runnerVars, fileVars, exporterVars, mainVars>>

\* time.sleep(1) returns
RunSleep ==
    /\ run_pc = "sleep"
    /\ run_pc' = "check"
    /\ UNCHANGED <<cron, _cron, _stop_event, stop_calls, sched_state, clock, start_time,
                   next_run_time, instances, fired>>
    /\ UNCHANGED <<storeVars, op, runnerVars, fileVars, exporterVars, mainVars>>

\* the finally block: the stop event is set and shutdown() is entered, which
\* stops the scheduler thread and then waits for the running job instances
RunFinally ==
    /\ run_pc \in {"finally", "finally_exc"}
    /\ _stop_event' = TRUE
    /\ IF ShutsDown(sched_state)
       THEN /\ sched_state' = "stopped"
            /\ run_pc' = IF run_pc = "finally" THEN "shutdown" ELSE "shutdown_exc"
       ELSE /\ run_pc' = IF run_pc = "finally" THEN "returned" ELSE "raised"
            /\ UNCHANGED sched_state
    /\ UNCHANGED <<cron, _cron, stop_calls, clock, start_time, next_run_time, instances, fired>>
    /\ UNCHANGED <<storeVars, op, runnerVars, fileVars, exporterVars, mainVars>>

\* shutdown() returns once no job instance is running, and run() returns,
\* or raises again the exception that ended its loop
RunReturns ==
    /\ run_pc \in {"shutdown", "shutdown_exc"}
    /\ instances = 0
    /\ run_pc' = IF run_pc = "shutdown" THEN "returned" ELSE "raised"
    /\ UNCHANGED <<cron, _cron, _stop_event, stop_calls, sched_state, clock, start_time,
                   next_run_time, instances, fired>>
    /\ UNCHANGED <<storeVars, op, runnerVars, fileVars, exporterVars, mainVars>>

\* time.sleep(1) or the loop condition is interrupted (KeyboardInterrupt, or
\* the exception of a signal handler): the finally block runs and the
\* exception leaves run()
RunInterrupt ==
    /\ run_pc \in {"check", "sleep"}
    /\ run_pc' = "finally_exc"
    /\ UNCHANGED <<cron, _cron, _stop_event, stop_calls, sched_state, clock, start_time,
                   next_run_time, instances, fired>>
    /\ UNCHANGED <<storeVars, op, runnerVars, fileVars, exporterVars, mainVars>>

\* Scheduler.stop(), from any thread, before run() or while it blocks
Stop ==
    /\ run_pc \in {"idle", "check", "sleep"}
    /\ _stop_event' = TRUE
    /\ stop_calls' = IF stop_calls # "never" THEN stop_calls
                     ELSE IF run_pc = "idle" THEN "before_run" ELSE "during_run"
    /\ UNCHANGED <<cron, _cron, run_pc, sched_state, clock, start_time, next_run_time,
                   instances, fired>>
    /\ UNCHANGED <<storeVars, op, runnerVars, fileVars, exporterVars, mainVars>>

\* the wall clock reaches the next fire time; a due job has been processed
Tick ==
    /\ run_pc # "unconstructed"
    /\ clock < MaxTime
    /\ ~(sched_state = "running" /\ next_run_time <= clock)
    /\ clock' = clock + 1
    /\ UNCHANGED <<cron, _cron, run_pc, _stop_event, stop_calls, sched_state, start_time,
                   next_run_time, instances, fired>>
    /\ UNCHANGED <<storeVars, op, runnerVars, fileVars, exporterVars, mainVars>>

\* the scheduler thread processes the due job: it submits the job to the
\* executor, which invokes the callback, unless the job has MAX_INSTANCES
\* running instances, when this run is skipped; the job's next fire time is
\* the next one after now
ProcessJobs ==
    /\ sched_state = "running"
    /\ next_run_time <= clock
    /\ IF instances >= MAX_INSTANCES
       THEN UNCHANGED <<instances, fired>>
       ELSE /\ instances' = instances + 1
            /\ fired' = Append(fired, FireEvent(clock, "running"))
    /\ next_run_time' = clock + 1
    /\ UNCHANGED <<cron, _cron, run_pc, _stop_event, stop_calls, sched_state, clock, start_time>>
    /\ UNCHANGED <<storeVars, op, runnerVars, fileVars, exporterVars, mainVars>>

\* the callback returns
JobReturns ==
    /\ instances > 0
    /\ sched_state # "crashed"
    /\ instances' = instances - 1
    /\ fired' = [fired EXCEPT ![Running].end = "returned"]
    /\ UNCHANGED <<cron, _cron, run_pc, _stop_event, stop_calls, sched_state, clock, start_time,
                   next_run_time>>
    /\ UNCHANGED <<storeVars, op, runnerVars, fileVars, exporterVars, mainVars>>

\* the callback raises exc
JobRaises(exc) ==
    /\ instances > 0
    /\ sched_state # "crashed"
    /\ fired' = [fired EXCEPT ![Running].end = "raised"]
    /\ IF RunJobCatches(exc)
       THEN instances' = instances - 1 /\ UNCHANGED sched_state
       ELSE sched_state' = "crashed" /\ UNCHANGED instances
    /\ UNCHANGED <<cron, _cron, run_pc, _stop_event, stop_calls, clock, start_time, next_run_time>>
    /\ UNCHANGED <<storeVars, op, runnerVars, fileVars, exporterVars, mainVars>>

----------------------------------------------------------------------------
(* GoogleSheetsExporter (app/exporter.py). The worksheet is the sequence   *)
(* of its rows; a row is tagged as the header row or a data row            *)

\* the records the export loop hands over: stored records, with their id
PolledResults == { [r EXCEPT !.id = Some(1)] : r \in NewResults }

HEADER_ROW == <<"header", "Timestamp", "Download (Mbps)", "Upload (Mbps)", "Ping (ms)">>

\* the row of a record: the timestamp text and the rounded rates and latency
\* (the rates of the model are whole numbers, which round() leaves as they are)
SheetRow(r) == <<"data", IsoFormatSep(r.timestamp), r.download_mbps, r.upload_mbps, r.ping_ms>>

\* the places where authenticate can raise
AuthRaisePoints == {"credentials", "open_by_key", "header"}

\* the errors of worksheet.append_row
SinkErrors == {"APIError", "ConnectionError"}

\* mutant: the sink leaves out a row it already has
AppendRowOnce(sh, row) ==
    [method |-> "append_row",
     sheet |-> IF \E k \in 1..Len(sh) : sh[k] = row THEN sh ELSE Append(sh, row)]

\* mutant: the exporter overwrites the sheet's last row
UpdateLastRow(sh, row) ==
    [method |-> "update", sheet |-> IF sh = <<>> THEN <<row>> ELSE [sh EXCEPT ![Len(sh)] = row]]

\* worksheet.append_row(row), the one call export_result and
\* retry_failed_exports make on the sink: the method and the sheet after it
AppendRow(sh, row) == [method |-> "append_row", sheet |-> Append(sh, row)]

\* mutant: a record whose export failed is dropped
RequeueNothing(q, r) == q

\* mutant: the retry queue is a deque of maximum length one, whose append
\* drops the older entry
RequeueMaxlenOne(q, r) == <<r>>

\* mutant: export_result queues a failed record twice
RequeueTwice(q, r) == Append(Append(q, r), r)

\* self._retry_queue.append(result) of export_result, on the deque without
\* maximum length of __init__
Requeue(q, r) == Append(q, r)

\* mutant: export_result catches the sink's API error only
ExportCatchesApiOnly(exc) == exc = "APIError"

\* "except Exception" of export_result
ExportCatches(exc) == exc \in {"APIError", "ConnectionError", "RuntimeError"}

\* GoogleSheetsExporter.authenticate, raising at place or at none: the
\* worksheet is kept from line 54 on, also when the header check raises, and
\* an empty sheet gets the header row
Authenticate(place) ==
    /\ exp.kind = "none"
    /\ _worksheet' = IF place \in {"credentials", "open_by_key"} THEN _worksheet
                     ELSE Some("sheet1")
    /\ sheet' = IF place = "none" /\ sheet = <<>> THEN <<HEADER_ROW>> ELSE sheet
    /\ exp' = [kind |-> "authenticate", ret |-> place = "none"]
    /\ UNCHANGED <<_retry_queue, forwarded>>
    /\ UNCHANGED <<storeVars, op, runnerVars, fileVars, schedVars>>

\* GoogleSheetsExporter.export_result(r); outcome is "ok" or the error the
\* sink's append_row answers with
ExportResult(r, outcome) ==
    /\ exp.kind = "none"
    /\ forwarded < MaxExports
    /\ LET exc == IF _worksheet = None THEN "RuntimeError" ELSE outcome
           appends == IF _worksheet = None THEN 0 ELSE 1
           sink == AppendRow(sheet, SheetRow(r))
           call == [kind |-> "export_result", result |-> r, appends |-> appends,
                    sink_calls |-> IF _worksheet = None THEN <<>> ELSE <<sink.method>>,
                    answer |-> exc, queue_before |-> _retry_queue, sheet_before |-> sheet]
       IN IF exc = "ok"
          THEN /\ sheet' = sink.sheet
               /\ exp' = call @@ [raised |-> FALSE, ret |-> TRUE]
               /\ UNCHANGED _retry_queue
          ELSE IF ExportCatches(exc)
          THEN /\ _retry_queue' = Requeue(_retry_queue, r)
               /\ exp' = call @@ [raised |-> FALSE, ret |-> FALSE]
               /\ UNCHANGED sheet
          ELSE /\ exp' = call @@ [raised |-> TRUE]
               /\ UNCHANGED <<_retry_queue, sheet>>
    /\ forwarded' = forwarded + 1
    /\ UNCHANGED _worksheet
    /\ UNCHANGED <<storeVars, op, runnerVars, fileVars, schedVars>>

\* mutant: retry_failed_exports catches the sink's API error only
RetryCatchesApiOnly(exc) == exc = "APIError"

\* "except Exception" of retry_failed_exports
RetryCatches(exc) == exc \in {"APIError", "ConnectionError", "RuntimeError"}

\* the answers of the sink to the appends of one retry pass over queue q
RetryAnswers(q) == [1..Len(q) -> SinkErrors \cup {"ok"}]

\* "for result in pending" of retry_failed_exports, from item i on; st holds
\* the sheet, the retry queue, the local exported, the sink methods called so
\* far and whether an exception left the loop
RECURSIVE RetryLoop(_, _, _, _)
RetryLoop(pending, answers, i, st) ==
    IF i > Len(pending) \/ st.raised THEN st
    ELSE LET r == pending[i]
             exc == IF _worksheet = None THEN "RuntimeError" ELSE answers[i]
             sink == AppendRow(st.sheet, SheetRow(r))
             calls == IF _worksheet = None THEN st.sink_calls
                      ELSE Append(st.sink_calls, sink.method)
         IN RetryLoop(pending, answers, i + 1,
                IF exc = "ok"
                THEN [st EXCEPT !.sheet = sink.sheet, !.exported = @ + 1, !.sink_calls = calls]
                ELSE IF RetryCatches(exc)
                THEN [st EXCEPT !.queue = Append(@, r), !.sink_calls = calls]
                ELSE [st EXCEPT !.raised = TRUE, !.sink_calls = calls])

\* GoogleSheetsExporter.retry_failed_exports(); answers[i] is "ok" or the
\* error the sink answers the append of the i-th queued record with
\* mutant: the pass leaves the pending records in the queue
ClearKeeps(q) == q

\* pending = list(self._retry_queue); self._retry_queue.clear()
Clear(q) == <<>>

RetryFailedExports(answers) ==
    /\ exp.kind = "none"
    /\ LET st == RetryLoop(_retry_queue, answers, 1,
                           [sheet |-> sheet, queue |-> Clear(_retry_queue), exported |-> 0,
                            sink_calls |-> <<>>, raised |-> FALSE])
       IN /\ sheet' = st.sheet
          /\ _retry_queue' = st.queue
          /\ exp' = [kind |-> "retry_failed_exports",
                     answers |-> [i \in 1..Len(_retry_queue) |->
                                     IF _worksheet = None THEN "RuntimeError" ELSE answers[i]],
                     queue_before |-> _retry_queue, sheet_before |-> sheet,
                     sink_calls |-> st.sink_calls, raised |-> st.raised,
                     ret |-> st.exported]
    /\ UNCHANGED <<_worksheet, forwarded>>
    /\ UNCHANGED <<storeVars, op, runnerVars, fileVars, schedVars>>

\* the caller has the return value of its exporter call
ExporterReturns ==
    /\ exp.kind # "none"
    /\ exp' = [kind |-> "none"]
    /\ UNCHANGED <<_worksheet, _retry_queue, sheet, forwarded>>
    /\ UNCHANGED <<storeVars, op, runnerVars, fileVars, schedVars>>

----------------------------------------------------------------------------
(* The exporter service (app/exporter_service.py): main() builds its       *)
(* configuration from the environment, creates the exporter and polls the  *)
(* store in a loop                                                         *)

RETRY_INTERVAL == 300
POLL_INTERVAL == 30

\* os.environ, as far as Config.from_env reads it: a variable is unset (None)
\* or has a text
Environs ==
    [GOOGLE_SHEETS_ENABLED : {None} \cup {Some(v) : v \in {"true", "false", "1", "0", "yes", "no"}},
     DB_RETENTION_DAYS : {None, Some("30"), Some("0"), Some("abc")},
     DASHBOARD_PORT : {None, Some("9090"), Some("0"), Some("abc")}]

\* os.environ.get(name, default)
EnvironGet(value, default) == IF value = None THEN default ELSE value[1]

\* int(text): the value of a decimal text, a ValueError for any other text
IntOf == ("0" :> 0) @@ ("30" :> 30) @@ ("90" :> 90) @@ ("8080" :> 8080) @@ ("9090" :> 9090)
IntRaises(text) == text \notin DOMAIN IntOf

\* Config.from_env(): the Config it builds has the sections schedule,
\* database, dashboard and logging
from_env(env) ==
    LET retention_days == EnvironGet(env.DB_RETENTION_DAYS, "90")
        port == EnvironGet(env.DASHBOARD_PORT, "8080")
    IN IF IntRaises(retention_days) \/ IntRaises(port)
       THEN [raised |-> TRUE, exc |-> "ValueError"]
       ELSE [raised |-> FALSE,
             config |-> [schedule |-> [cron |-> "0 * * * *"],
                         database |-> [path |-> "/data/speedtest.db",
                                       retention_days |-> IntOf[retention_days]],
                         dashboard |-> [port |-> IntOf[port], auto_refresh_seconds |-> 60,
                                        url_prefix |-> ""],
                         logging |-> [level |-> "INFO"]]]

\* config.<name> raises AttributeError unless the Config has the attribute
HasAttr(config, name) == name \in DOMAIN config

\* main() from its call to the check of the enabled flag (lines 22-30)
Main(env) ==
    /\ main_pc = "unstarted"
    /\ environ' = env
    /\ LET made == from_env(env)
       IN IF made.raised
          THEN main_pc' = "raised" /\ main_exc' = Some(made.exc)
          ELSE IF ~HasAttr(made.config, "google_sheets")
          THEN main_pc' = "raised" /\ main_exc' = Some("AttributeError")
          ELSE IF "google_sheets" \in DOMAIN made.config /\ ~made.config.google_sheets.enabled
          THEN main_pc' = "returned" /\ main_exc' = None
          ELSE main_pc' = "setup" /\ main_exc' = None
    /\ UNCHANGED <<main_last_id, since_retry, new_results, handed, cursor_before,
                   handed_count, sink_ok>>
    /\ UNCHANGED <<storeVars, op, runnerVars, fileVars, schedVars, exporterVars>>

\* the readings of time.monotonic() when the loop makes its first retry check
MonotonicAtStart == {0, RETRY_INTERVAL}

\* how long one iteration takes: the sleep of POLL_INTERVAL and the time of
\* its calls on the store and the sink, here five or ten sleeps' time
IterationTimes == {5 * POLL_INTERVAL, 10 * POLL_INTERVAL}

\* the answers the sink can give to an append
SinkAnswers == IF sink_ok THEN {"ok"} ELSE SinkErrors \cup {"ok"}

\* main() from the creation of the exporter to the loop (lines 32-43):
\* authenticate() is called once, and its failure is logged
MainSetup(place, monotonic) ==
    /\ main_pc = "setup"
    /\ Authenticate(place)
    /\ main_last_id' = 0
    /\ since_retry' = monotonic
    /\ main_pc' = "poll"
    /\ UNCHANGED <<environ, main_exc, new_results, handed, cursor_before, handed_count, sink_ok>>

\* new_results = exporter.poll_database(last_id); when the store raises the
\* except clause of the loop logs and the iteration goes on at its retry check
LoopPoll(raises) ==
    /\ main_pc = "poll"
    /\ cursor_before' = main_last_id
    /\ handed' = <<>>
    /\ IF raises
       THEN new_results' = <<>> /\ main_pc' = "except"
       ELSE /\ new_results' \in get_results_after(main_last_id)
            /\ main_pc' = "for"
    /\ exp' = [kind |-> "none"]
    /\ UNCHANGED <<environ, main_exc, main_last_id, since_retry, handed_count, sink_ok>>
    /\ UNCHANGED <<_worksheet, _retry_queue, sheet, forwarded>>
    /\ UNCHANGED <<storeVars, op, runnerVars, fileVars, schedVars>>

\* for result in new_results: exporter.export_result(result)
LoopExport(outcome) ==
    /\ main_pc = "for"
    /\ Len(handed) < Len(new_results)
    /\ LET r == new_results[Len(handed) + 1]
       IN /\ ExportResult(r, outcome)
          /\ handed' = Append(handed, r)
          /\ handed_count' = [handed_count EXCEPT ![r.id[1]] = @ + 1]
    /\ main_pc' = IF exp'.raised THEN "except" ELSE "advance"
    /\ UNCHANGED <<environ, main_exc, main_last_id, since_retry, new_results, cursor_before, sink_ok>>

\* except Exception as exc: logger.error("Error polling database: %s", exc)
LoopExcept ==
    /\ main_pc = "except"
    /\ main_pc' = "retry_check"
    /\ exp' = [kind |-> "none"]
    /\ UNCHANGED <<environ, main_exc, main_last_id, since_retry, new_results, handed,
                   cursor_before, handed_count, sink_ok>>
    /\ UNCHANGED <<_worksheet, _retry_queue, sheet, forwarded>>
    /\ UNCHANGED <<storeVars, op, runnerVars, fileVars, schedVars>>

\* mutant: the cursor is left where it is
AdvanceCursorNever(cursor, r) == cursor

\* if result.id is not None and result.id > last_id: last_id = result.id
AdvanceCursor(cursor, r) == IF r.id # None /\ r.id[1] > cursor THEN r.id[1] ELSE cursor

\* the cursor update after export_result has returned
LoopAdvance ==
    /\ main_pc = "advance"
    /\ ExporterReturns
    /\ main_last_id' = AdvanceCursor(main_last_id, handed[Len(handed)])
    /\ main_pc' = "for"
    /\ UNCHANGED <<environ, main_exc, since_retry, new_results, handed, cursor_before,
                   handed_count, sink_ok>>

\* the for loop is through new_results
LoopForEnds ==
    /\ main_pc = "for"
    /\ Len(handed) = Len(new_results)
    /\ main_pc' = "retry_check"
    /\ UNCHANGED <<environ, main_exc, main_last_id, since_retry, new_results, handed,
                   cursor_before, handed_count, sink_ok>>
    /\ UNCHANGED <<storeVars, op, runnerVars, fileVars, schedVars, exporterVars>>

\* mutant: the retry check never finds the interval elapsed
RetryDueNever(since) == FALSE

\* mutant: the retry check is due at every poll
RetryDueEveryPoll(since) == since >= POLL_INTERVAL

\* now - last_retry_time >= RETRY_INTERVAL
RetryDue(since) == since >= RETRY_INTERVAL

\* the retry check of the loop (lines 57-62)
LoopRetryCheck(answers) ==
    /\ main_pc = "retry_check"
    /\ IF RetryDue(since_retry)
       THEN IF Len(_retry_queue) > 0
            THEN /\ RetryFailedExports(answers)
                 /\ IF exp'.raised
                    THEN /\ main_pc' = "raised"
                         /\ main_exc' = Some("Exception")
                         /\ UNCHANGED since_retry
                    ELSE /\ main_pc' = "sleep"
                         /\ since_retry' = 0
                         /\ UNCHANGED main_exc
            ELSE /\ main_pc' = "sleep"
                 /\ since_retry' = 0
                 /\ UNCHANGED <<storeVars, op, runnerVars, fileVars, schedVars, exporterVars,
                                main_exc>>
       ELSE /\ main_pc' = "sleep"
            /\ UNCHANGED <<storeVars, op, runnerVars, fileVars, schedVars, exporterVars,
                           since_retry, main_exc>>
    /\ UNCHANGED <<environ, main_last_id, new_results, handed, cursor_before,
                   handed_count, sink_ok>>

\* time.sleep(POLL_INTERVAL), after which the monotonic clock is duration later
LoopSleep(duration) ==
    /\ main_pc = "sleep"
    /\ since_retry' = IF since_retry + duration >= RETRY_INTERVAL THEN RETRY_INTERVAL
                      ELSE since_retry + duration
    /\ main_pc' = "poll"
    /\ UNCHANGED <<environ, main_exc, main_last_id, new_results, handed, cursor_before,
                   handed_count, sink_ok>>
    /\ UNCHANGED <<storeVars, op, runnerVars, fileVars, schedVars, exporterVars>>

\* the exporter process ends (it is killed, or its host restarts) and is
\* started again: main() builds a new Database on the same file and a new
\* GoogleSheetsExporter, whose _retry_queue is a new deque() and whose
\* _worksheet is None; the locals of the old main() are gone. The store's
\* file and the sheet stay as they are
Restart ==
    /\ main_pc \in {"poll", "for", "advance", "except", "retry_check", "sleep"}
    /\ forwarded < MaxExports
    /\ main_pc' = "setup"
    /\ speed_tests' = _init_schema([speed_tests |-> speed_tests]).speed_tests
    /\ _retry_queue' = <<>>
    /\ _worksheet' = None
    /\ exp' = [kind |-> "none"]
    /\ main_last_id' = 0
    /\ since_retry' = 0
    /\ new_results' = <<>>
    /\ handed' = <<>>
    /\ cursor_before' = 0
    /\ UNCHANGED <<environ, main_exc, handed_count, sink_ok, sheet, forwarded>>
    /\ UNCHANGED <<sqlite_sequence, issued, given, op, runnerVars, fileVars, schedVars>>

\* the sink comes back: from now on it accepts every append
SinkRecovers ==
    /\ ~sink_ok
    /\ sink_ok' = TRUE
    /\ UNCHANGED <<main_pc, environ, main_exc, main_last_id, since_retry, new_results,
                   handed, cursor_before, handed_count>>
    /\ UNCHANGED <<storeVars, op, runnerVars, fileVars, schedVars, exporterVars>>

\* the records the speedtest service stores while the exporter runs: one
\* with an earlier and one with a later timestamp
LoopRecords ==
    { SpeedTestResult([day |-> 0, us |-> us], p, None) : us \in {0, 1}, p \in Payloads }

\* a committed insert_result of the speedtest service, which is another
\* process: the exporter sees the row and nothing else of the call
ServiceInserts(r) ==
    /\ sqlite_sequence < MaxSeq
    /\ InsertCommit(r)
    /\ UNCHANGED <<op, runnerVars, otherVars>>

\* the daily cleanup of the speedtest service, at a time when the record
\* with the earlier timestamp is older than the retention
LoopCleanup == CleanupOldData(1, [day |-> 1, us |-> 1])

----------------------------------------------------------------------------
(* speedtest_service.main(): one Database, written by the runner job on    *)
(* the Scheduler's job thread and by the daily cleanup on the cleanup      *)
(* scheduler's thread (app/speedtest_service.py, app/database.py). A path  *)
(* on disk gives every call a connection of its own, and SQLite's file     *)
(* lock admits one writing transaction at a time; ":memory:" gives every   *)
(* call the one persistent connection (check_same_thread=False), whose     *)
(* transaction the two threads then share. The sqlite3 module releases the *)
(* interpreter lock around each statement, so the threads interleave       *)
(* between the test of the connection's autocommit flag, BEGIN, the        *)
(* statement, and COMMIT or ROLLBACK                                       *)

\* DB_PATH: the default file path, or an in-memory database
DbPaths == {"/data/speedtest.db", ":memory:"}

\* self._persistent_conn is not None
Persistent == conn.db_path = ":memory:"

StoreNow ==
    [speed_tests |-> speed_tests, sqlite_sequence |-> sqlite_sequence,
     issued |-> issued, given |-> given]

\* ROLLBACK: the database is as it was when the transaction began
Restore(s) ==
    /\ speed_tests' = s.speed_tests
    /\ sqlite_sequence' = s.sqlite_sequence
    /\ issued' = s.issued
    /\ given' = s.given

\* db = Database(config.database.path)
ServiceStart(db_path) ==
    /\ conn.db_path = ""
    /\ conn' = [conn EXCEPT !.db_path = db_path]
    /\ UNCHANGED <<storeVars, op, runnerVars, instance, at_open, schedVars, exporterVars,
                   mainVars>>

\* an earlier run of the job, alone: its insert_result committed
EarlierInsert(r) ==
    /\ conn.db_path # ""
    /\ conn.at_start = <<>>
    /\ sqlite_sequence < MaxSeq - 1
    /\ InsertCommit(r)
    /\ UNCHANGED <<op, runnerVars, otherVars>>

\* both schedulers fire: the job thread calls insert_result(r), the cleanup
\* thread calls cleanup_old_data(retention_days) and reads the clock as now
BothFire(r, retention_days, now) ==
    /\ conn.db_path # ""
    /\ conn.at_start = <<>>
    /\ ~RetentionDisabled(retention_days)
    /\ ~CutoffOverflows(now, retention_days)
    /\ conn' = [conn EXCEPT
                  !.pc = [t \in Threads |-> "execute"],
                  !.at_start = Some(StoreNow),
                  !.call = [job |-> [result |-> r, raised |-> FALSE, ret |-> None],
                            cleanup |-> [retention_days |-> retention_days, now |-> now,
                                         raised |-> FALSE, ret |-> None]]]
    /\ UNCHANGED <<storeVars, op, runnerVars, instance, at_open, schedVars, exporterVars,
                   mainVars>>

\* the transaction the statement of thread t runs in: on a connection of
\* the call's own it begins with the statement and holds the write lock
OwnTransaction(t) ==
    IF Persistent THEN conn
    ELSE [conn EXCEPT !.writer = t, !.snapshot = Some(StoreNow)]

\* the statement of thread t takes effect in the connection's transaction;
\* its lastrowid or rowcount is what the call will return
Statement(t) ==
    IF t = "job"
    THEN /\ InsertCommit(conn.call[t].result)
         /\ conn' = [OwnTransaction(t) EXCEPT !.pc[t] = "exit",
                                              !.call[t].ret = Some(NextRowid)]
    ELSE LET deleted == DeleteVictims(conn.call[t].now, conn.call[t].retention_days)
         IN /\ speed_tests' = speed_tests \ deleted
            /\ given' = {g \in given : \A row \in deleted : g.id # Some(row.id)}
            /\ UNCHANGED <<sqlite_sequence, issued>>
            /\ conn' = [OwnTransaction(t) EXCEPT !.pc[t] = "exit",
                                                 !.call[t].ret = Some(Cardinality(deleted))]

\* thread t leaves "with conn" by an exception
Raise(t) == [conn EXCEPT !.pc[t] = "exit_exc", !.call[t].raised = TRUE,
                         !.call[t].ret = None]

\* conn.execute on a connection of the call's own (a file path): BEGIN, then
\* the statement, which needs the file's write lock. While the other
\* thread's transaction holds the lock the call waits, and raises
\* OperationalError (database is locked) when its timeout passes first
FileExecute(t, ok) ==
    /\ ~Persistent
    /\ conn.pc[t] = "execute"
    /\ IF conn.writer = "nobody" /\ ok
       THEN Statement(t)
       ELSE conn' = Raise(t) /\ UNCHANGED storeVars
    /\ UNCHANGED <<op, runnerVars, instance, at_open, schedVars, exporterVars, mainVars>>

\* "with conn" ends on a connection of the call's own: COMMIT, or ROLLBACK
\* when the statement or the COMMIT raised; the write lock is released
FileExit(t, ok) ==
    /\ ~Persistent
    /\ conn.pc[t] \in {"exit", "exit_exc"}
    /\ IF conn.pc[t] = "exit" /\ ok
       THEN /\ conn' = [conn EXCEPT !.pc[t] = "done", !.writer = "nobody",
                                    !.snapshot = <<>>]
            /\ UNCHANGED storeVars
       ELSE IF conn.writer = t
       THEN /\ Restore(conn.snapshot[1])
            /\ conn' = [Raise(t) EXCEPT !.pc[t] = "done", !.writer = "nobody",
                                        !.snapshot = <<>>]
       ELSE /\ conn' = [Raise(t) EXCEPT !.pc[t] = "done"]
            /\ UNCHANGED storeVars
    /\ UNCHANGED <<op, runnerVars, instance, at_open, schedVars, exporterVars, mainVars>>

\* conn.execute, commit and rollback on the persistent connection, first
\* half: the sqlite3 module tests whether the connection is in a transaction
SharedTest(t) ==
    /\ Persistent
    /\ conn.pc[t] \in {"execute", "exit", "exit_exc"}
    /\ conn' = [conn EXCEPT !.found[t] = conn.in_transaction,
                            !.pc[t] = CASE conn.pc[t] = "execute" -> "begin"
                                        [] conn.pc[t] = "exit" -> "commit"
                                        [] OTHER -> "rollback"]
    /\ UNCHANGED <<storeVars, op, runnerVars, instance, at_open, schedVars, exporterVars,
                   mainVars>>

\* BEGIN when the test found no transaction; SQLite refuses a BEGIN inside
\* the transaction the other thread has begun since
SharedBegin(t) ==
    /\ Persistent
    /\ conn.pc[t] = "begin"
    /\ conn' = IF conn.found[t] THEN [conn EXCEPT !.pc[t] = "step"]
               ELSE IF conn.in_transaction THEN Raise(t)
               ELSE [conn EXCEPT !.pc[t] = "step", !.in_transaction = TRUE,
                                 !.snapshot = Some(StoreNow)]
    /\ UNCHANGED <<storeVars, op, runnerVars, instance, at_open, schedVars, exporterVars,
                   mainVars>>

\* the statement on the persistent connection: inside the open transaction,
\* whichever thread began it, or on its own when none is open any more
SharedStep(t, ok) ==
    /\ Persistent
    /\ conn.pc[t] = "step"
    /\ IF ok
       THEN Statement(t)
       ELSE conn' = Raise(t) /\ UNCHANGED storeVars
    /\ UNCHANGED <<op, runnerVars, instance, at_open, schedVars, exporterVars, mainVars>>

\* COMMIT when the test found a transaction; SQLite refuses a COMMIT when
\* the other thread has ended the transaction since
SharedCommit(t) ==
    /\ Persistent
    /\ conn.pc[t] = "commit"
    /\ conn' = IF ~conn.found[t] THEN [conn EXCEPT !.pc[t] = "done"]
               ELSE IF conn.in_transaction
               THEN [conn EXCEPT !.pc[t] = "done", !.in_transaction = FALSE,
                                 !.snapshot = <<>>]
               ELSE Raise(t)
    /\ UNCHANGED <<storeVars, op, runnerVars, instance, at_open, schedVars, exporterVars,
                   mainVars>>

\* ROLLBACK when the test found a transaction: everything done on the
\* connection since its BEGIN is undone, by whichever thread
SharedRollback(t) ==
    /\ Persistent
    /\ conn.pc[t] = "rollback"
    /\ IF conn.found[t] /\ conn.in_transaction
       THEN /\ Restore(conn.snapshot[1])
            /\ conn' = [conn EXCEPT !.pc[t] = "done", !.in_transaction = FALSE,
                                    !.snapshot = <<>>]
       ELSE /\ conn' = [conn EXCEPT !.pc[t] = "done"]
            /\ UNCHANGED storeVars
    /\ UNCHANGED <<op, runnerVars, instance, at_open, schedVars, exporterVars, mainVars>>

----------------------------------------------------------------------------
(* The dashboard (app/dashboard.py): GET /api/stats. The rates and         *)
(* latencies of the model are whole numbers; a rounded quotient is given   *)
(* in units of its last decimal place (round(x, 2) in hundredths,          *)
(* round(x, 1) in tenths)                                                  *)

\* round(num / den * 10^digits): the nearest whole number, the even one of
\* two that are equally near
RoundDiv(num, den) ==
    LET q == num \div den
        rest == num % den
    IN IF 2 * rest < den THEN q
       ELSE IF 2 * rest > den THEN q + 1
       ELSE IF q % 2 = 0 THEN q ELSE q + 1

RECURSIVE SumSeq(_)
SumSeq(q) == IF q = <<>> THEN 0 ELSE Head(q) + SumSeq(Tail(q))

\* min(list) and max(list)
MinOfList(q) == CHOOSE m \in {q[i] : i \in 1..Len(q)} : \A i \in 1..Len(q) : m <= q[i]
MaxOfList(q) == CHOOSE m \in {q[i] : i \in 1..Len(q)} : \A i \in 1..Len(q) : m >= q[i]

\* mutant: the statistics are taken over every record of the range
SuccessfulAll(results) == results

\* successful = [r for r in results if r.success]
Successful(results) == SelectSeq(results, LAMBDA r : r.success)

\* Statistics.to_dict() of the Statistics get_statistics builds
StatisticsDict(results, start, end) ==
    LET successful == Successful(results)
        n == Len(successful)
        downloads == [i \in 1..n |-> successful[i].download_mbps]
        uploads == [i \in 1..n |-> successful[i].upload_mbps]
        pings == [i \in 1..n |-> successful[i].ping_ms]
        total_tests == Len(results)
        failed_tests == Len(results) - n
    IN [averages |-> [download_mbps |-> RoundDiv(SumSeq(downloads) * 100, n),
                      upload_mbps |-> RoundDiv(SumSeq(uploads) * 100, n),
                      ping_ms |-> RoundDiv(SumSeq(pings) * 10, n)],
        download |-> [min |-> MinOfList(downloads) * 100, max |-> MaxOfList(downloads) * 100],
        upload |-> [min |-> MinOfList(uploads) * 100, max |-> MaxOfList(uploads) * 100],
        ping |-> [min |-> MinOfList(pings) * 10, max |-> MaxOfList(pings) * 10],
        tests |-> [total |-> total_tests, failed |-> failed_tests,
                   success_rate |-> IF total_tests > 0
                                    THEN RoundDiv((total_tests - failed_tests) * 1000, total_tests)
                                    ELSE 0],
        period |-> [start |-> IsoFormat(start), end |-> IsoFormat(end)]]

\* get_statistics with well-formed start and end: the status and the JSON
\* body of the response, None for null
get_statistics(results, start, end) ==
    IF results = <<>> THEN [status |-> 200, body |-> None]
    ELSE IF Successful(results) = <<>> THEN [status |-> 200, body |-> None]
    ELSE [status |-> 200, body |-> Some(StatisticsDict(results, start, end))]

\* GET /api/stats?start=...&end=...
GetStatistics(start, end) ==
    /\ op.kind = "none"
    /\ \E results \in query_range(start, end) :
          op' = [kind |-> "get_statistics", start |-> start, end |-> end,
                 ret |-> get_statistics(results, start, end)]
    /\ UNCHANGED storeVars
    /\ UNCHANGED <<runnerVars, otherVars>>

\* the records and the ranges of the statistics: successful and failed
\* measurements at two times
StatsTimes == { [day |-> 0, us |-> us] : us \in {0, 1} }
StatsRecords == { SpeedTestResult(ts, p, None) : ts \in StatsTimes, p \in ValidPayloads }

----------------------------------------------------------------------------
(* Specifications                                                          *)

NextStore ==
    \/ \E r \in NewResults, ok \in BOOLEAN : InsertResult(r, ok)
    \/ \E start, end \in Timestamps : QueryRange(start, end)
    \/ \E limit \in 0..MaxLimit : GetLatest(limit)
    \/ \E last_id \in 0..MaxSeq : GetResultsAfter(last_id)
    \/ \E d \in -1..MaxRetention, now \in Timestamps : CleanupOldData(d, now)
    \/ CallReturns

SpecStore == Init /\ [][NextStore]_vars

\* the store with a DELETE statement that may fail
NextAtomic ==
    \/ \E r \in NewResults, ok \in BOOLEAN : InsertResult(r, ok)
    \/ \E limit \in 0..MaxLimit : GetLatest(limit)
    \/ \E last_id \in 0..MaxSeq : GetResultsAfter(last_id)
    \/ \E d \in -1..MaxRetention, now \in Timestamps : CleanupOldData(d, now)
    \/ \E d \in -1..MaxRetention, now \in Timestamps : CleanupOldDataFails(d, now)
    \/ CallReturns

SpecAtomic == Init /\ [][NextAtomic]_vars

\* the two writer threads of speedtest_service on one Database
NextWriters ==
    \/ \E db_path \in DbPaths : ServiceStart(db_path)
    \/ \E r \in LoopRecords : EarlierInsert(r)
    \/ \E r \in LoopRecords, now \in Timestamps : BothFire(r, 1, now)
    \/ \E t \in Threads, ok \in BOOLEAN : FileExecute(t, ok)
    \/ \E t \in Threads, ok \in BOOLEAN : FileExit(t, ok)
    \/ \E t \in Threads : SharedTest(t)
    \/ \E t \in Threads : SharedBegin(t)
    \/ \E t \in Threads, ok \in BOOLEAN : SharedStep(t, ok)
    \/ \E t \in Threads : SharedCommit(t)
    \/ \E t \in Threads : SharedRollback(t)

SpecWriters == Init /\ [][NextWriters]_vars

\* the construction of a Scheduler on every cron string
NextCron ==
    /\ run_pc = "unconstructed"
    /\ \E n \in 0..MaxFields : \E expression \in CronStringsOf(n) : SchedulerNew(expression)

SpecCron == Init /\ [][NextCron]_vars

\* the scheduler of the speedtest service
NextScheduler ==
    \/ /\ run_pc = "unconstructed"
       /\ \E expression \in SchedCrons : SchedulerNew(expression)
    \/ RunStart
    \/ RunCheck
    \/ RunSleep
    \/ RunFinally
    \/ RunReturns
    \/ Stop
    \/ Tick
    \/ ProcessJobs
    \/ JobReturns
    \/ \E exc \in JobErrors : JobRaises(exc)

SpecScheduler == Init /\ [][NextScheduler]_vars

\* the main thread and the scheduler thread keep running, and the callback
\* comes to an end
FairScheduler ==
    /\ WF_vars(RunCheck)
    /\ WF_vars(RunSleep)
    /\ WF_vars(RunFinally)
    /\ WF_vars(RunReturns)
    /\ WF_vars(ProcessJobs)
    /\ WF_vars(JobReturns \/ \E exc \in JobErrors : JobRaises(exc))

SpecSchedulerFair == SpecScheduler /\ FairScheduler

\* Scheduler.run with a wait loop that may be interrupted
NextInterrupt ==
    \/ /\ run_pc = "unconstructed"
       /\ \E expression \in SchedCrons : SchedulerNew(expression)
    \/ RunStart
    \/ RunCheck
    \/ RunSleep
    \/ RunInterrupt
    \/ RunFinally
    \/ RunReturns
    \/ Stop
    \/ Tick
    \/ ProcessJobs
    \/ JobReturns
    \/ \E exc \in JobErrors : JobRaises(exc)

SpecInterrupt == Init /\ [][NextInterrupt]_vars

\* the exporter, called by the export loop
NextExporter ==
    \/ \E place \in AuthRaisePoints \cup {"none"} :
          Authenticate(place) /\ UNCHANGED mainVars
    \/ \E r \in PolledResults, outcome \in SinkErrors \cup {"ok"} :
          ExportResult(r, outcome) /\ UNCHANGED mainVars
    \/ \E answers \in RetryAnswers(_retry_queue) :
          RetryFailedExports(answers) /\ UNCHANGED mainVars
    \/ ExporterReturns /\ UNCHANGED mainVars

SpecExporter == Init /\ [][NextExporter]_vars

\* main() of the exporter service, called in every environment
NextMain ==
    /\ main_pc = "unstarted"
    /\ \E env \in Environs : Main(env)

SpecMain == Init /\ [][NextMain]_vars

\* main() of the exporter service is past the check of the enabled flag: it
\* gets there with a Config that has the google_sheets section
InitLoop == Constructed /\ MainAt("setup")

\* the export loop, with the speedtest service writing to the store
NextLoop ==
    \/ \E place \in AuthRaisePoints \cup {"none"}, monotonic \in MonotonicAtStart :
          MainSetup(place, monotonic)
    \/ \E raises \in BOOLEAN : LoopPoll(raises)
    \/ \E outcome \in SinkAnswers : LoopExport(outcome)
    \/ LoopAdvance
    \/ LoopForEnds
    \/ LoopExcept
    \/ /\ main_pc = "retry_check"
       /\ \E answers \in [1..Len(_retry_queue) -> SinkAnswers] : LoopRetryCheck(answers)
    \/ \E duration \in IterationTimes : LoopSleep(duration)
    \/ SinkRecovers
    \/ \E r \in LoopRecords : ServiceInserts(r)
    \/ LoopCleanup
    \/ CallReturns

SpecLoop == InitLoop /\ [][NextLoop]_vars

\* the loop keeps running, and the store does not fail every poll
FairLoop ==
    /\ WF_vars(\E place \in AuthRaisePoints \cup {"none"}, monotonic \in MonotonicAtStart :
                   MainSetup(place, monotonic))
    /\ WF_vars(\E raises \in BOOLEAN : LoopPoll(raises))
    /\ SF_vars(LoopPoll(FALSE))
    /\ WF_vars(\E outcome \in SinkAnswers : LoopExport(outcome))
    /\ WF_vars(LoopAdvance)
    /\ WF_vars(LoopForEnds)
    /\ WF_vars(LoopExcept)
    /\ WF_vars(\E answers \in [1..Len(_retry_queue) -> SinkAnswers] : LoopRetryCheck(answers))
    /\ WF_vars(\E duration \in IterationTimes : LoopSleep(duration))

SpecLoopFair == SpecLoop /\ FairLoop

\* the export loop of an exporter process that may be restarted, with the
\* speedtest service storing records
NextRestart ==
    \/ \E place \in AuthRaisePoints \cup {"none"}, monotonic \in MonotonicAtStart :
          MainSetup(place, monotonic)
    \/ \E raises \in BOOLEAN : LoopPoll(raises)
    \/ \E outcome \in SinkAnswers : LoopExport(outcome)
    \/ LoopAdvance
    \/ LoopForEnds
    \/ LoopExcept
    \/ /\ main_pc = "retry_check"
       /\ \E answers \in [1..Len(_retry_queue) -> SinkAnswers] : LoopRetryCheck(answers)
    \/ \E duration \in IterationTimes : LoopSleep(duration)
    \/ Restart
    \/ SinkRecovers
    \/ \E r \in LoopRecords : ServiceInserts(r)

SpecRestart == InitLoop /\ [][NextRestart]_vars

\* the dashboard's statistics over a store that is written to
NextStats ==
    \/ \E r \in StatsRecords : InsertResult(r, TRUE)
    \/ \E start, end \in StatsTimes : GetStatistics(start, end)
    \/ CallReturns

SpecStats == Init /\ [][NextStats]_vars

\* the store on a file path, with instances created one after the other
NextReopen ==
    \/ \E r \in NewResults, ok \in BOOLEAN : InsertResult(r, ok)
    \/ Reopen
    \/ \E limit \in 0..MaxLimit : GetLatest(limit)
    \/ \E last_id \in 0..MaxSeq : GetResultsAfter(last_id)
    \/ CallReturns

SpecReopen == Init /\ [][NextReopen]_vars

\* insert_result and get_latest on valid records of every shape
NextRoundTrip ==
    \/ \E r \in ValidResults, ok \in BOOLEAN : InsertResult(r, ok)
    \/ \E limit \in 0..MaxLimit : GetLatest(limit)
    \/ CallReturns

SpecRoundTrip == Init /\ [][NextRoundTrip]_vars

NextRunner ==
    \/ \E m \in Measurements, now \in Timestamps : RunAndStore(m, now)
    \/ \E r \in NewResults, n \in 0..MaxRetriesArg : StoreResult(r, n)
    \/ AttemptSucceeds
    \/ \E exc \in InsertErrors : AttemptFails(exc)
    \/ Sleep
    \/ Exhausted
    \/ Finish

SpecRunner == Init /\ [][NextRunner]_vars

----------------------------------------------------------------------------
(* Properties of the runner, checked under SpecRunner                      *)

IsInsert(ev) == ev.e = "insert"
IsSleep(ev) == ev.e = "sleep"
IsFailedInsert(ev) == IsInsert(ev) /\ ~ev.ok

\* the insert_result calls and the sleeps of the current store_result call
InsertCalls == SelectSeq(log, IsInsert)
Sleeps == SelectSeq(log, IsSleep)

SomeAttemptSucceeded == \E i \in 1..Len(InsertCalls) : InsertCalls[i].ok

\* the 0-based attempt number of the insert call logged at position i
AttemptIndex(i) == Len(SelectSeq(SubSeq(log, 1, i - 1), IsInsert))

\* the store failed its first k attempts and then succeeded
FailedFirst(k) ==
    /\ Len(InsertCalls) = k + 1
    /\ \A i \in 1..k : ~InsertCalls[i].ok
    /\ InsertCalls[k + 1].ok

\* C1: store_result(record, retries=n) calls insert_result at most n times,
\* makes no call after one that succeeded, and returns True exactly when
\* some call succeeded.
C1_StoreResultAttempts ==
    /\ Len(InsertCalls) <= retries
    /\ \A i \in 1..Len(InsertCalls) :
          InsertCalls[i].ok => i = Len(InsertCalls) /\ pc = "done"
    /\ pc = "done" => /\ stored \in {Some(TRUE), Some(FALSE)}
                      /\ stored = Some(TRUE) <=> SomeAttemptSucceeded

\* store_result(retries=3) returned True from its third insert_result call
C1_Witness ==
    /\ pc = "done"
    /\ retries = 3
    /\ FailedFirst(2)
    /\ stored = Some(TRUE)

\* C2: with retries = 3, every failed attempt k (0-based) that is not the
\* last one is followed by a sleep of 2^k seconds, nothing else is followed by
\* a sleep, and a store that fails its first k attempts (k = 1, 2) and then
\* succeeds has slept exactly <<1>>, <<1, 2>>.
C2_BackoffTiming ==
    retries = 3 =>
        /\ \A i \in 1..Len(log) :
              IsFailedInsert(log[i]) /\ AttemptIndex(i) # retries - 1
                  => IF i < Len(log)
                     THEN IsSleep(log[i + 1]) /\ log[i + 1].secs = Pow(2, AttemptIndex(i))
                     ELSE pc = "sleep" /\ wait = Pow(2, AttemptIndex(i))
        /\ \A i \in 1..Len(log) :
              IsSleep(log[i])
                  => i > 1 /\ IsFailedInsert(log[i - 1]) /\ AttemptIndex(i - 1) # retries - 1
        /\ pc = "sleep" => log # <<>> /\ IsFailedInsert(log[Len(log)])
        /\ pc = "done" /\ FailedFirst(1) => Sleeps = <<SleepEvent(1)>>
        /\ pc = "done" /\ FailedFirst(2) => Sleeps = <<SleepEvent(1), SleepEvent(2)>>

\* two failed attempts, a sleep of 1 s and one of 2 s, then success
C2_Witness ==
    /\ pc = "done"
    /\ retries = 3
    /\ log = <<InsertEvent(FALSE), SleepEvent(1), InsertEvent(FALSE), SleepEvent(2),
               InsertEvent(TRUE)>>

\* C3: when every insert_result call of store_result raises, store_result
\* returns False, the record's id is still None, and no exception leaves
\* store_result.
C3_AllAttemptsFail ==
    /\ pc # "store_result_raised"
    /\ pc = "done" /\ ~SomeAttemptSucceeded
          => stored = Some(FALSE) /\ result[1].id = None

\* store_result(retries=3) returned False after three failed calls
C3_Witness ==
    /\ pc = "done"
    /\ Len(InsertCalls) = 3
    /\ ~SomeAttemptSucceeded
    /\ stored = Some(FALSE)
    /\ result[1].id = None

\* the rows the current runner call added to the table
RowsOfCall == {row \in speed_tests : row.id > seq0}

\* a row of a failed measurement
IsFailureRow(row) ==
    /\ row.success = 0
    /\ row.download_mbps = 0
    /\ row.upload_mbps = 0
    /\ row.ping_ms = 0
    /\ row.error_message # None

\* C4: run_and_store returns None exactly when all insert attempts failed;
\* otherwise it returns the record, whose id is the id insert_result
\* returned and under which the record's row is stored, whether the
\* measurement succeeded or failed.
C4_RunAndStoreReturn ==
    pc = "done" /\ mode = "run_and_store" =>
        /\ run_ret = None <=> (Len(InsertCalls) = MAX_RETRIES /\ ~SomeAttemptSucceeded)
        /\ run_ret # None =>
              /\ run_ret = result
              /\ run_ret[1].id = Some(issued[Len(issued)])
              /\ RowOf(run_ret[1], issued[Len(issued)]) \in speed_tests
              /\ run_ret[1].success = (measured = "none")

\* a failed measurement was stored by the second run and is returned with id 2
C4_Witness ==
    /\ pc = "done"
    /\ mode = "run_and_store"
    /\ measured # "none"
    /\ run_ret # None
    /\ run_ret[1].id = Some(2)

\* C5: whatever exception the measurement operation raises, execute_test
\* raises nothing and returns a record with success False, download, upload
\* and ping zero and an error message that is not None.
C5_ExecuteTestTotal ==
    /\ pc # "execute_test_raised"
    /\ mode = "run_and_store" /\ measured # "none" =>
          /\ result # None
          /\ result[1].success = FALSE
          /\ result[1].download_mbps = 0
          /\ result[1].upload_mbps = 0
          /\ result[1].ping_ms = 0
          /\ result[1].error_message # None

\* execute_test has just returned the record of a measurement whose import failed
C5_Witness ==
    /\ mode = "run_and_store"
    /\ measured = "import"
    /\ pc = "store"
    /\ attempt = 0
    /\ result[1].success = FALSE
    /\ result[1].error_message # None

\* C6 as claimed: a failed measurement leaves exactly one row per
\* run_and_store call, never none.
C6_ExactlyOneRow ==
    pc = "done" /\ mode = "run_and_store" /\ measured # "none" =>
        /\ Cardinality(RowsOfCall) = 1
        /\ \A row \in RowsOfCall : IsFailureRow(row)

\* C6 amended: a failed measurement leaves at most one row per
\* run_and_store call, also when insert attempts are retried; the row has
\* success 0, zero rates and latency and an error message; there is one row
\* exactly when an insert attempt succeeded, and none when all attempts
\* failed, in which case run_and_store returns None.
C6_AtMostOneRow ==
    mode = "run_and_store" /\ measured # "none" =>
        /\ Cardinality(RowsOfCall) <= 1
        /\ \A row \in RowsOfCall : IsFailureRow(row)
        /\ pc = "done" => /\ Cardinality(RowsOfCall) = 1 <=> SomeAttemptSucceeded
                          /\ Cardinality(RowsOfCall) = 0 <=> run_ret = None

\* a failed measurement was stored at the second insert attempt
C6_Witness ==
    /\ pc = "done"
    /\ mode = "run_and_store"
    /\ measured # "none"
    /\ FailedFirst(1)
    /\ Cardinality(RowsOfCall) = 1
    /\ \A row \in RowsOfCall : IsFailureRow(row)

----------------------------------------------------------------------------
(* Properties of the store                                                  *)

\* the records of a returned list
Returned == {op.ret[i] : i \in 1..Len(op.ret)}

NoneTwice == Len(op.ret) = Cardinality(Returned)

Min(a, b) == IF a <= b THEN a ELSE b

\* the record of the newest insert_result call that returned
LastInserted == CHOOSE g \in given : g.id = Some(sqlite_sequence)

\* C13: insert_result(r) followed by get_latest(1), on a store holding no
\* other record with a timestamp at or after r's (an empty store before the
\* insert in particular), returns one record, equal to r in timestamp,
\* download and upload rate, latency and server label (and in success flag
\* and error message), with the id insert_result returned.
C13_RoundTrip ==
    /\ op.kind = "get_latest"
    /\ op.limit = 1
    /\ sqlite_sequence > 0
    /\ \A g \in given : g # LastInserted => DtLess(g.timestamp, LastInserted.timestamp)
    => /\ Len(op.ret) = 1
       /\ op.ret[1].timestamp = LastInserted.timestamp
       /\ op.ret[1].download_mbps = LastInserted.download_mbps
       /\ op.ret[1].upload_mbps = LastInserted.upload_mbps
       /\ op.ret[1].ping_ms = LastInserted.ping_ms
       /\ op.ret[1].test_server = LastInserted.test_server
       /\ op.ret[1].success = LastInserted.success
       /\ op.ret[1].error_message = LastInserted.error_message
       /\ op.ret[1].id = Some(sqlite_sequence)

\* get_latest(1) returned the record just inserted, one with microseconds
\* and without a server label, from a store that holds an older record too
C13_Witness ==
    /\ op.kind = "get_latest"
    /\ op.limit = 1
    /\ Len(op.ret) = 1
    /\ op.ret[1].id = Some(2)
    /\ op.ret[1].timestamp.us # 0
    /\ op.ret[1].test_server = None
    /\ Cardinality(given) = 2

\* C14: the records inserted before the newest Database instance was created
\* on the file are still stored and are returned by the queries made after
\* its creation: creating the instance (and its schema script) removes no row.
C14_Persistence ==
    /\ \A g \in at_open : RowOf(g, g.id[1]) \in speed_tests
    /\ instance > 1 /\ op.kind = "get_results_after" /\ op.last_id = 0
          => at_open \subseteq Returned
    /\ instance > 1 /\ op.kind = "get_latest" /\ op.limit >= count
          => at_open \subseteq Returned
    /\ instance > 1 /\ op.kind = "get_latest" /\ op.limit >= 1 /\ at_open # {}
          => Len(op.ret) >= 1

\* get_latest(1) of the second instance returned the record the first
\* instance had inserted
C14_Witness ==
    /\ instance = 2
    /\ op.kind = "get_latest"
    /\ op.limit = 1
    /\ Len(op.ret) = 1
    /\ Cardinality(at_open) = 1
    /\ op.ret[1] \in at_open

\* a step that is a call of cleanup_old_data
CleanupCall == op.kind = "none" /\ op'.kind = "cleanup_old_data"

\* a stored row older than the wall clock reading of the last cleanup call
HasOldRow == \E row \in speed_tests : DtLess(FromIsoFormat(row.timestamp), op.now)

\* C11: cleanup_old_data(retention_days) with retention_days <= 0 returns 0,
\* raises nothing and leaves every stored row in place, however old the rows.
C11_CleanupDisabled ==
    [][CleanupCall /\ op'.retention_days <= 0
         => /\ ~op'.raised
            /\ op'.ret = 0
            /\ speed_tests' = speed_tests
            /\ sqlite_sequence' = sqlite_sequence]_vars

\* cleanup_old_data(-1) has returned 0 and a row older than now is still stored
C11_Witness ==
    /\ op.kind = "cleanup_old_data"
    /\ op.retention_days = -1
    /\ ~op.raised
    /\ op.ret = 0
    /\ HasOldRow

\* now - retention_days days, as a datetime
CutoffOf(now, retention_days) == [day |-> now.day - retention_days, us |-> now.us]

\* C12 as claimed: cleanup_old_data(d) with d > 0 returns, having deleted
\* exactly the rows whose timestamp is strictly earlier than now - d days and
\* no row at or after that cutoff, and its return value is the number of rows
\* it deleted.
C12_CleanupDeletesOld ==
    [][CleanupCall /\ op'.retention_days > 0
         => /\ ~op'.raised
            /\ speed_tests' \subseteq speed_tests
            /\ speed_tests \ speed_tests'
                   = {row \in speed_tests :
                         DtLess(FromIsoFormat(row.timestamp),
                                CutoffOf(op'.now, op'.retention_days))}
            /\ op'.ret = Cardinality(speed_tests \ speed_tests')]_vars

\* the same for the calls whose cutoff is a representable datetime
C12_WithinRange ==
    [][CleanupCall /\ op'.retention_days > 0 /\ op'.now.day - op'.retention_days >= 0
         => /\ ~op'.raised
            /\ speed_tests' \subseteq speed_tests
            /\ speed_tests \ speed_tests'
                   = {row \in speed_tests :
                         DtLess(FromIsoFormat(row.timestamp),
                                CutoffOf(op'.now, op'.retention_days))}
            /\ op'.ret = Cardinality(speed_tests \ speed_tests')]_vars

\* C7: whatever inserts and cleanups came before, insert_result returns an
\* id greater than every id returned earlier, also when cleanup has deleted
\* the row with the highest id; no two rows share an id.
C7_IdsIncrease ==
    /\ \A i, j \in 1..Len(issued) : i < j => issued[i] < issued[j]
    /\ \A a, b \in speed_tests : a.id = b.id => a = b
    /\ \A row \in speed_tests : \E i \in 1..Len(issued) : row.id = issued[i]

\* insert_result has just returned 2 for the only row of the table: cleanup
\* had deleted row 1, the row with the highest id
C7_Witness ==
    /\ op.kind = "insert_result"
    /\ ~op.raised
    /\ op.ret = 2
    /\ issued = <<1, 2>>
    /\ {row.id : row \in speed_tests} = {2}

\* C8: query_range(start, end) returns exactly the stored records with
\* start <= timestamp <= end, each once, in ascending order of timestamp,
\* and the empty list when there is none.
C8_QueryRange ==
    op.kind = "query_range" =>
        /\ Returned = {g \in given : DtLeq(op.start, g.timestamp) /\ DtLeq(g.timestamp, op.end)}
        /\ NoneTwice
        /\ \A i, j \in 1..Len(op.ret) :
              i < j => DtLeq(op.ret[i].timestamp, op.ret[j].timestamp)

\* of two stored records the query returned the one whose timestamp is the
\* end of the window
C8_Witness ==
    /\ op.kind = "query_range"
    /\ Cardinality(speed_tests) = 2
    /\ Len(op.ret) = 1
    /\ op.ret[1].timestamp = op.end
    /\ op.start # op.end

\* C9: get_latest(n) returns min(n, row count) stored records, each once,
\* in descending order of timestamp, and no stored record left out is newer
\* than a returned one.
C9_GetLatest ==
    op.kind = "get_latest" =>
        /\ Len(op.ret) = Min(op.limit, count)
        /\ Returned \subseteq given
        /\ NoneTwice
        /\ \A i, j \in 1..Len(op.ret) :
              i < j => DtLeq(op.ret[j].timestamp, op.ret[i].timestamp)
        /\ \A g \in given \ Returned : \A x \in Returned : DtLeq(g.timestamp, x.timestamp)

\* get_latest(1) returned the newer of two records, which was inserted first
C9_Witness ==
    /\ op.kind = "get_latest"
    /\ op.limit = 1
    /\ Cardinality(speed_tests) = 2
    /\ Len(op.ret) = 1
    /\ op.ret[1].id = Some(1)
    /\ \E g \in given : DtLess(g.timestamp, op.ret[1].timestamp)

\* C10: get_results_after(last_id) returns exactly the stored records with
\* id > last_id, each once, in ascending order of id whatever their
\* timestamps, and the empty list when there is none.
C10_GetResultsAfter ==
    op.kind = "get_results_after" =>
        /\ Returned = {g \in given : g.id[1] > op.last_id}
        /\ NoneTwice
        /\ \A i, j \in 1..Len(op.ret) : i < j => op.ret[i].id[1] < op.ret[j].id[1]

\* two records came back in id order although the second is the older one
C10_Witness ==
    /\ op.kind = "get_results_after"
    /\ Len(op.ret) = 2
    /\ op.ret[1].id = Some(1)
    /\ op.ret[2].id = Some(2)
    /\ DtLess(op.ret[2].timestamp, op.ret[1].timestamp)

----------------------------------------------------------------------------
(* Properties of the scheduler                                             *)

\* a valid 5-field cron string: minute, hour, day of month, month, day of week
IsValidCron5(expression) ==
    /\ Len(expression) = 5
    /\ \A i \in 1..5 : FieldValid(expression[i], i)

\* C15 as claimed: the schedule a constructed Scheduler holds is the cron
\* string it was given when that is a valid 5-field cron string, and the
\* default "0 * * * *" when it is not (wrong field count, a field out of
\* range, empty, not cron text).
C15_CronFallback ==
    _cron # None =>
        _cron = IF IsValidCron5(cron[1]) THEN cron ELSE Some(DEFAULT_CRON)

\* what holds instead: the schedule is the string given when croniter
\* accepts it, six-field strings included, and the default otherwise
C15_CroniterDecides ==
    _cron # None =>
        /\ IsValidCron5(cron[1]) => _cron = cron
        /\ Len(cron[1]) \notin {5, 6} => _cron = Some(DEFAULT_CRON)
        /\ (\E i \in 1..Len(cron[1]) : i <= 6 /\ ~FieldValid(cron[1][i], i))
              => _cron = Some(DEFAULT_CRON)

\* the fire times the callback was invoked for
FiredTimes == {fired[i].time : i \in 1..Len(fired)}

SomeJobRaised == \E i \in 1..Len(fired) : fired[i].end = "raised"

RunningJobs == {i \in 1..Len(fired) : fired[i].end = "running"}

\* C16: an exception the callback raises is caught where the job runs: it
\* ends neither the scheduler thread nor run(), which leaves its loop only
\* after stop(); the job's instance is released and the job keeps its next
\* fire time, so the callback is invoked again at later fire times.
C16_CallbackExceptionCaught ==
    SomeJobRaised =>
        /\ sched_state \in {"running", "stopped"}
        /\ run_pc \in {"check", "sleep", "finally", "shutdown", "returned"}
        /\ run_pc \in {"finally", "shutdown", "returned"} => stop_calls # "never"
        /\ instances = Cardinality(RunningJobs)
        /\ sched_state = "running" => next_run_time >= clock

\* the callback raised at the first fire time and was invoked again at the
\* second, while run() is in its loop
C16_Witness ==
    /\ Len(fired) = 2
    /\ fired[1] = FireEvent(1, "raised")
    /\ fired[2].time = 2
    /\ run_pc \in {"check", "sleep"}
    /\ sched_state = "running"

\* C17 as claimed: when stop() was called before run(), the callback is
\* never invoked, not even when a fire time falls inside the call of run().
C17_StopBeforeRun == stop_calls = "before_run" => fired = <<>>

\* C18: once stop() is called while run() blocks, run() returns, and
\* whenever run() has returned the job scheduler is shut down.
C18_StopEndsRun ==
    /\ [](run_pc = "returned" => sched_state = "stopped")
    /\ (stop_calls = "during_run") ~> (run_pc = "returned")

\* run() has returned after a stop() during the loop, the job scheduler is
\* shut down, and the callback had been invoked
C18_Witness ==
    /\ run_pc = "returned"
    /\ stop_calls = "during_run"
    /\ sched_state = "stopped"
    /\ fired # <<>>

\* C19 as claimed: the callback is invoked for every fire time the job
\* scheduler has passed since it was started, also for those that fall while
\* an earlier invocation is still running, and for none twice.
C19_NoFireMissed ==
    /\ sched_state # "none" =>
          \A t \in (start_time + 1)..(next_run_time - 1) : t \in FiredTimes
    /\ \A i, j \in 1..Len(fired) : i < j => fired[i].time < fired[j].time

\* what holds instead: no fire time is fired twice, at most one invocation
\* runs at a time, and a fire time is passed over only while the invocation
\* of an earlier fire time was still running
C19_NoFireTwice ==
    /\ \A i, j \in 1..Len(fired) : i < j => fired[i].time < fired[j].time
    /\ instances <= MAX_INSTANCES
    /\ Cardinality(RunningJobs) = instances

----------------------------------------------------------------------------
(* Properties of the exporter                                              *)

IsPrefix(a, b) == Len(a) <= Len(b) /\ SubSeq(b, 1, Len(a)) = a

\* C21: export_result and retry_failed_exports call nothing on the sink but
\* append_row, whatever the sink answers, and every row the sheet had before
\* the call is still there, at its place.
C21_AppendOnly ==
    exp.kind \in {"export_result", "retry_failed_exports"} =>
        /\ \A i \in 1..Len(exp.sink_calls) : exp.sink_calls[i] = "append_row"
        /\ IsPrefix(exp.sheet_before, sheet)

\* a retry pass over two records on a sheet with rows: the sink has taken one
\* and refused the other
C21_Witness ==
    /\ exp.kind = "retry_failed_exports"
    /\ Len(exp.sink_calls) = 2
    /\ exp.sheet_before # <<>>
    /\ exp.ret = 1
    /\ Len(_retry_queue) = 1

\* the entries of sequence q at the indexes where the answer satisfies keep
RECURSIVE Kept(_, _, _)
Kept(q, answers, ok) ==
    IF q = <<>> THEN <<>>
    ELSE LET n == Len(q)
             front == Kept(SubSeq(q, 1, n - 1), SubSeq(answers, 1, n - 1), ok)
         IN IF (answers[n] = "ok") = ok THEN Append(front, q[n]) ELSE front

\* the rows of the records of q, in order
RECURSIVE RowsOf(_)
RowsOf(q) == IF q = <<>> THEN <<>> ELSE <<SheetRow(Head(q))>> \o RowsOf(Tail(q))

\* C22: every export_result call that fails makes the retry queue longer by
\* exactly one, so that N failing calls in a row make it longer by N: the
\* queue's length is the number of records forwarded so far when none of
\* them reached the sheet; and after a retry pass in which the append of
\* every queued record succeeds the queue is empty.
C22_QueueConservation ==
    /\ (exp.kind = "export_result" /\ ~exp.ret) =>
           Len(_retry_queue) = Len(exp.queue_before) + 1
    /\ (\A i \in 1..Len(sheet) : sheet[i][1] # "data") => Len(_retry_queue) = forwarded
    /\ (/\ exp.kind = "retry_failed_exports"
        /\ \A i \in 1..Len(exp.queue_before) : exp.answers[i] = "ok") =>
           Len(_retry_queue) = 0

\* two records were forwarded and both failed, the second on a sink error
C22_Witness ==
    /\ exp.kind = "export_result"
    /\ exp.answer \in SinkErrors
    /\ forwarded = 2
    /\ Len(_retry_queue) = 2

\* a retry pass has emptied a queue of two records
C22_WitnessDrained ==
    /\ exp.kind = "retry_failed_exports"
    /\ Len(exp.queue_before) = 2
    /\ exp.ret = 2
    /\ _retry_queue = <<>>

\* C23: one retry_failed_exports pass raises nothing and calls append_row
\* once for every record that was in the queue when it began (never, when
\* there is no worksheet): the records whose append succeeded are rows at the
\* end of the sheet and no longer in the queue, the records whose append
\* failed are the queue, once each and in their old order, the return value
\* is the number of successes and the queue is shorter by that number.
C23_RetryPass ==
    exp.kind = "retry_failed_exports" =>
        /\ ~exp.raised
        /\ Len(exp.sink_calls) = IF _worksheet = None THEN 0 ELSE Len(exp.queue_before)
        /\ sheet = exp.sheet_before \o RowsOf(Kept(exp.queue_before, exp.answers, TRUE))
        /\ _retry_queue = Kept(exp.queue_before, exp.answers, FALSE)
        /\ exp.ret = Len(Kept(exp.queue_before, exp.answers, TRUE))
        /\ Len(_retry_queue) = Len(exp.queue_before) - exp.ret

\* a pass over two records whose first append failed on a connection error
\* and whose second succeeded
C23_Witness ==
    /\ exp.kind = "retry_failed_exports"
    /\ Len(exp.queue_before) = 2
    /\ exp.answers = <<"ConnectionError", "ok">>
    /\ exp.ret = 1
    /\ _retry_queue = <<exp.queue_before[1]>>

\* the data rows among the rows of sheet sh
DataRows(sh) == { i \in 1..Len(sh) : sh[i][1] = "data" }

\* C24 as stated: the retry queue has a fixed bound. Whatever the number
\* MaxExports of records the exporter is handed, the bound would have to be
\* smaller than it for some number: the queue stays shorter than MaxExports.
C24_QueueBounded == Len(_retry_queue) < MaxExports

\* C24, amended: the retry queue never holds more records than were
\* forwarded with export_result: it holds each forwarded record that has not
\* reached the sheet, once.
C24_QueueAtMostForwarded ==
    /\ Len(_retry_queue) <= forwarded
    /\ Len(_retry_queue) + Cardinality(DataRows(sheet)) = forwarded

\* every record the exporter was handed is in the retry queue
C24_Witness ==
    /\ forwarded = MaxExports
    /\ Len(_retry_queue) = MaxExports

----------------------------------------------------------------------------
(* Properties of the export loop                                           *)

\* the ids of the records of sequence q
IdSet(q) == { q[i].id[1] : i \in 1..Len(q) }

\* the largest number of a non-empty set
MaxOf(S) == CHOOSE m \in S : \A n \in S : n <= m

\* the rows of the store with the id
StoredWithId(i) == { row \in speed_tests : row.id = i }

\* C25 as stated: once the sink accepts every append, the retry queue is
\* empty at some later time.
C25_QueueDrains == sink_ok ~> (_retry_queue = <<>>)

\* what holds of the loop: when the exporter has its worksheet and the sink
\* accepts every append, every queued record gets its row in the sheet and
\* the queue is empty at some later time
C25_DrainsWithWorksheet ==
    /\ (sink_ok /\ _worksheet # None) ~> (_retry_queue = <<>>)
    /\ \A r \in { [x EXCEPT !.id = Some(i)] : x \in LoopRecords, i \in 1..MaxSeq } :
          (sink_ok /\ _worksheet # None /\ \E k \in 1..Len(_retry_queue) : _retry_queue[k] = r)
              ~> (\E k \in 1..Len(sheet) : sheet[k] = SheetRow(r))

\* C26: in an iteration of the loop the records handed to export_result are
\* the records the poll returned, each once and in the poll's order, which
\* is by ascending id; the cursor is never below its value when the poll was
\* made, it is the largest id handed so far (or its old value, when none was
\* handed), whether export_result returned True or False, and when the for
\* loop is through it is the largest id the poll returned.
C26_PollIteration ==
    /\ Len(handed) <= Len(new_results)
    /\ handed = SubSeq(new_results, 1, Len(handed))
    /\ \A i, j \in 1..Len(new_results) : i < j => new_results[i].id[1] < new_results[j].id[1]
    /\ cursor_before <= main_last_id
    /\ main_pc = "for" => main_last_id = MaxOf({cursor_before} \cup IdSet(handed))
    /\ main_pc \in {"retry_check", "sleep"} =>
          /\ handed = new_results
          /\ main_last_id = MaxOf({cursor_before} \cup IdSet(new_results))

\* helper: no step of the loop lowers the cursor
C26_CursorNeverDecreases == [][main_last_id' >= main_last_id]_vars

\* an iteration whose poll returned two records is through: the first was
\* queued, the second is in the sheet, and the cursor is the second's id
C26_Witness ==
    /\ main_pc = "retry_check"
    /\ Len(new_results) = 2
    /\ _retry_queue = <<new_results[1]>>
    /\ sheet # <<>> /\ sheet[Len(sheet)] = SheetRow(new_results[2])
    /\ cursor_before = 0
    /\ main_last_id = 2

\* C27: no record is handed to export_result twice, every stored record at or
\* below the cursor was handed to it, and every stored record is handed to
\* it at some later time, unless the cleanup deletes it before the poll
\* that would return it.
C27_NoRecordSkipped ==
    /\ [](\A i \in 1..MaxSeq :
            /\ handed_count[i] <= 1
            /\ (StoredWithId(i) # {} /\ i <= main_last_id) => handed_count[i] = 1)
    /\ \A i \in 1..MaxSeq :
          (StoredWithId(i) # {}) ~> (handed_count[i] = 1 \/ StoredWithId(i) = {})

\* the record with id 2 was stored after the poll that returned the record
\* with id 1, with an earlier timestamp than that record's, and was handed to
\* export_result after a later poll
C27_Witness ==
    /\ handed_count[1] = 1 /\ handed_count[2] = 1
    /\ cursor_before = 1
    /\ \E a \in StoredWithId(1), b \in StoredWithId(2) : TextLess(b.timestamp, a.timestamp)

----------------------------------------------------------------------------
(* Properties of the dashboard                                             *)

\* the rows of the store in the range of the last statistics request, and
\* the successful ones among them
RowsInRange == { row \in speed_tests : InRange(row, op.start, op.end) }
SuccessfulRows == { row \in RowsInRange : row.success = 1 }

RECURSIVE SumOver(_, _)
SumOver(S, field) ==
    IF S = {} THEN 0
    ELSE LET row == CHOOSE x \in S : TRUE IN row[field] + SumOver(S \ {row}, field)

\* C28: /api/stats answers 200 and null when the range has no successful
\* record; otherwise the averages, minima and maxima are those of the
\* successful records of the range alone, tests.total is the number of all
\* records of the range, tests.failed is total minus the number of
\* successful ones and success_rate is (total - failed) / total * 100 (the
\* averages and the rate rounded as to_dict rounds them).
C28_Statistics ==
    op.kind = "get_statistics" =>
        LET total == Cardinality(RowsInRange)
            n == Cardinality(SuccessfulRows)
            stats == op.ret.body[1]
        IN /\ op.ret.status = 200
           /\ (n = 0) = (op.ret.body = None)
           /\ n > 0 =>
                /\ stats.averages.download_mbps = RoundDiv(SumOver(SuccessfulRows, "download_mbps") * 100, n)
                /\ stats.averages.upload_mbps = RoundDiv(SumOver(SuccessfulRows, "upload_mbps") * 100, n)
                /\ stats.averages.ping_ms = RoundDiv(SumOver(SuccessfulRows, "ping_ms") * 10, n)
                /\ \A row \in SuccessfulRows :
                      /\ stats.download.min <= row.download_mbps * 100
                      /\ stats.download.max >= row.download_mbps * 100
                      /\ stats.upload.min <= row.upload_mbps * 100
                      /\ stats.upload.max >= row.upload_mbps * 100
                      /\ stats.ping.min <= row.ping_ms * 10
                      /\ stats.ping.max >= row.ping_ms * 10
                /\ \E lo, hi \in SuccessfulRows :
                      /\ stats.download.min = lo.download_mbps * 100
                      /\ stats.download.max = hi.download_mbps * 100
                /\ \E lo, hi \in SuccessfulRows :
                      /\ stats.upload.min = lo.upload_mbps * 100
                      /\ stats.upload.max = hi.upload_mbps * 100
                /\ \E lo, hi \in SuccessfulRows :
                      /\ stats.ping.min = lo.ping_ms * 10
                      /\ stats.ping.max = hi.ping_ms * 10
                /\ stats.tests.total = total
                /\ stats.tests.failed = total - n
                /\ stats.tests.success_rate = RoundDiv((total - stats.tests.failed) * 1000, total)

\* statistics over a range with a successful and a failed record: one of two
\* tests failed, and the minimum is the successful record's rate
C28_Witness ==
    /\ op.kind = "get_statistics"
    /\ op.ret.body # None
    /\ op.ret.body[1].tests = [total |-> 2, failed |-> 1, success_rate |-> 500]
    /\ op.ret.body[1].download.min > 0

\* the range holds a failed record and no successful one: the answer is null
C28_WitnessNull ==
    /\ op.kind = "get_statistics"
    /\ RowsInRange # {}
    /\ op.ret.body = None

----------------------------------------------------------------------------
(* Properties of the exporter service's start                              *)

\* _bool(os.environ.get("GOOGLE_SHEETS_ENABLED", "true")), the enabled flag
\* as tests/unit/test_config.py expects from_env to read it
EnabledInEnviron ==
    EnvironGet(environ.GOOGLE_SHEETS_ENABLED, "true") \in {"1", "true", "yes"}

\* C29: main() honours the enabled flag: called with the flag disabled it
\* returns, called with the flag enabled or unset it goes on to create the
\* exporter and authenticate, and it raises nothing before the loop.
C29_EnabledFlagHonoured ==
    main_pc # "unstarted" =>
        /\ main_exc = None
        /\ main_pc = IF EnabledInEnviron THEN "setup" ELSE "returned"

\* helper: whatever the environment, main() ends in an exception before its
\* check of the flag is made: a ValueError of from_env for a number that
\* does not parse, the AttributeError of config.google_sheets otherwise
C29_MainRaises ==
    main_pc # "unstarted" =>
        /\ main_pc = "raised"
        /\ main_exc = IF IntRaises(EnvironGet(environ.DB_RETENTION_DAYS, "90"))
                         \/ IntRaises(EnvironGet(environ.DASHBOARD_PORT, "8080"))
                      THEN Some("ValueError") ELSE Some("AttributeError")

----------------------------------------------------------------------------
(* Properties of the store under the export loop                           *)

\* the step is a cleanup_old_data call
IsCleanupStep == op.kind = "none" /\ op'.kind = "cleanup_old_data"

\* C30: every row of the store has the field values of the record
\* insert_result was called with and the id it was given then; no step of an
\* insert, of the export loop (its polls included) or of the cleanup changes
\* a row that stays, a new row has an id no row had before, and a row leaves
\* the store in a step of cleanup_old_data only.
C30_RecordsImmutable ==
    /\ [](speed_tests = { RowOf(g, g.id[1]) : g \in given })
    /\ [][/\ \A row \in speed_tests : row \in speed_tests' \/ IsCleanupStep
          /\ \A row \in speed_tests' : row \in speed_tests \/ row.id > sqlite_sequence]_vars

\* the cleanup has deleted one of two records after the export loop had
\* handed both to the sink; the other is still in the store
C30_Witness ==
    /\ op.kind = "cleanup_old_data"
    /\ op.ret = 1
    /\ Cardinality(DataRows(sheet)) = 2
    /\ Cardinality(speed_tests) = 1

(***************************************************************************)
(* Atomic store writes                                                     *)

\* a step that is a call of insert_result
InsertCall == op.kind = "none" /\ op'.kind = "insert_result"


\* C31: a write that raises leaves the stored rows unchanged (a failed
\* insert_result adds no row and the count stays, a failed cleanup_old_data
\* deletes nothing); a write that returns is committed: the inserted row is
\* stored under the returned id and is what a read after the previous id
\* returns, and the rows selected by a cleanup are gone.
C31_WritesAtomic ==
    /\ [](op.kind = "insert_result" /\ ~op.raised
            => \A res \in get_results_after(op.ret - 1) :
                    Len(res) = 1 /\ res[1].id = Some(op.ret))
    /\ [][/\ (InsertCall \/ CleanupCall) /\ op'.raised
               => /\ speed_tests' = speed_tests
                  /\ count' = count
          /\ InsertCall /\ ~op'.raised
               => /\ \E row \in speed_tests' :
                       /\ row.id = op'.ret
                       /\ speed_tests' = speed_tests \cup {row}
                       /\ row \notin speed_tests
                  /\ count' = count + 1
          /\ CleanupCall /\ ~op'.raised /\ op'.retention_days > 0
               => /\ speed_tests' \subseteq speed_tests
                  /\ Cardinality(speed_tests') = Cardinality(speed_tests) - op'.ret
                  /\ \A row \in speed_tests' :
                       ~OlderThan(row, CutoffOf(op'.now, op'.retention_days))
         ]_vars

\* a cleanup_old_data whose DELETE raised although a stored row was older
\* than the cutoff
C31_Witness ==
    /\ op.kind = "cleanup_old_data"
    /\ op.raised
    /\ op.retention_days > 0
    /\ op.now.day - op.retention_days >= 0
    /\ \E row \in speed_tests : OlderThan(row, CutoffOf(op.now, op.retention_days))

(***************************************************************************)
(* Serialised store writes                                                 *)

\* both calls of the two writer threads have returned or raised
WritersDone == conn.at_start # <<>> /\ \A t \in Threads : conn.pc[t] = "done"

\* the row the job's insert_result adds to a store whose last rowid is seq
JobRow(seq) == RowOf(conn.call["job"].result, seq + 1)

\* the rows after the job's insert_result alone, succeeding or raising
AfterInsert(rows, seq, ok) == IF ok THEN rows \cup {JobRow(seq)} ELSE rows

\* the rows after the cleanup's cleanup_old_data alone
AfterCleanup(rows, ok) ==
    IF ok
    THEN {row \in rows : ~OlderThan(row, CutoffOf(conn.call["cleanup"].now,
                                                  conn.call["cleanup"].retention_days))}
    ELSE rows

\* rows and outcomes of the two calls run one after the other, in either
\* order, each committing or raising as a whole
SequentialOutcomes ==
    LET rows0 == conn.at_start[1].speed_tests
        seq0_ == conn.at_start[1].sqlite_sequence
    IN { [speed_tests |-> AfterCleanup(AfterInsert(rows0, seq0_, i), c),
          raised |-> [job |-> ~i, cleanup |-> ~c]] : i, c \in BOOLEAN }
       \cup
       { [speed_tests |-> AfterInsert(AfterCleanup(rows0, c), seq0_, i),
          raised |-> [job |-> ~i, cleanup |-> ~c]] : i, c \in BOOLEAN }

WritersOutcome ==
    [speed_tests |-> speed_tests,
     raised |-> [t \in Threads |-> conn.call[t].raised]]

\* the job's insert_result returned an id for a record that is not older
\* than the cleanup's cutoff, and no row with that id is stored
InsertedRowLost ==
    /\ ~conn.call["job"].raised
    /\ ~OlderThan(JobRow(0), CutoffOf(conn.call["cleanup"].now,
                                      conn.call["cleanup"].retention_days))
    /\ StoredWithId(conn.call["job"].ret[1]) = {}

\* C32: when the job's insert_result and the cleanup's cleanup_old_data
\* interleave on one Database, the stored rows and the outcomes of the two
\* calls are those of the calls run one after the other in some order, and
\* a record inserted with a timestamp at or after the cutoff is stored.
C32_WritesSerialised ==
    WritersDone => WritersOutcome \in SequentialOutcomes /\ ~InsertedRowLost

\* the same on a Database with a file path, where each call has its own
\* connection
C32_FileBacked ==
    WritersDone /\ ~Persistent => WritersOutcome \in SequentialOutcomes /\ ~InsertedRowLost

\* on a file path both calls have committed, the cleanup having deleted an
\* older row
C32_FileWitness ==
    /\ WritersDone /\ ~Persistent
    /\ \A t \in Threads : ~conn.call[t].raised
    /\ conn.call["cleanup"].ret = Some(1)
    /\ StoredWithId(conn.call["job"].ret[1]) # {}

(***************************************************************************)
(* Serial invocation of the trigger callback                               *)

\* a step in which the job scheduler considers a fire time of the job
FireConsidered == sched_state = "running" /\ next_run_time' # next_run_time

\* C33 as claimed: at most one invocation of the callback is in progress at
\* any time, and a fire time is considered only when no invocation is in
\* progress.
C33_SerialInvocations ==
    /\ [](instances <= 1 /\ Cardinality(RunningJobs) <= 1)
    /\ [][FireConsidered => instances = 0]_vars

\* what holds: at most one invocation is in progress at any time, and a fire
\* time considered during an invocation starts no other
C33_AtMostOne ==
    /\ [](instances <= 1 /\ Cardinality(RunningJobs) <= 1)
    /\ [][FireConsidered /\ instances > 0 => UNCHANGED <<instances, fired>>]_vars

(***************************************************************************)
(* The retry interval of the export loop                                   *)

\* a step of the loop's retry check that calls retry_failed_exports
RetryInvoked ==
    main_pc = "retry_check" /\ main_pc' = "sleep" /\ exp'.kind = "retry_failed_exports"

\* C34: retry_failed_exports is called only when RETRY_INTERVAL has passed
\* since last_retry_time, which the call sets to now; the time since
\* last_retry_time grows with the monotonic clock only and restarts at a due
\* retry check only, however long an iteration takes, so two consecutive
\* calls are at least RETRY_INTERVAL apart; and a retry check that finds
\* RETRY_INTERVAL passed and the queue non-empty calls retry_failed_exports
\* on the whole queue.
C34_RetryInterval ==
    [][/\ RetryInvoked => since_retry >= RETRY_INTERVAL /\ since_retry' = 0
       /\ main_pc # "setup" /\ since_retry' < since_retry
            => main_pc = "retry_check" /\ since_retry >= RETRY_INTERVAL
       /\ main_pc # "setup" /\ since_retry' > since_retry => main_pc = "sleep"
       /\ main_pc = "retry_check" /\ main_pc' = "sleep" /\ Len(_retry_queue) > 0
            /\ since_retry >= RETRY_INTERVAL
            => /\ RetryInvoked
               /\ exp'.queue_before = _retry_queue
               /\ _worksheet # None => Len(exp'.sink_calls) = Len(_retry_queue)
      ]_vars

\* retry_failed_exports has drained a queue of two records into the sheet,
\* in an iteration that was not the first
C34_Witness ==
    /\ main_pc = "sleep"
    /\ exp.kind = "retry_failed_exports"
    /\ Len(exp.queue_before) = 2
    /\ _retry_queue = <<>>
    /\ since_retry = 0
    /\ main_last_id > 0

(***************************************************************************)
(* Errors on the export path                                               *)

\* the positions of main() inside its while loop
LoopPositions == {"poll", "for", "advance", "except", "retry_check", "sleep"}

\* a step in which poll_database raises
PollRaises == main_pc = "poll" /\ main_pc' = "except"

\* a step in which the sink fails a call made by export_result or by
\* retry_failed_exports
SinkFails ==
    /\ exp' # exp
    /\ exp'.kind \in {"export_result", "retry_failed_exports"}
    /\ \/ exp'.kind = "export_result" /\ exp'.answer # "ok"
       \/ exp'.kind = "retry_failed_exports"
            /\ \E i \in 1..Len(exp'.answers) : exp'.answers[i] # "ok"

\* C35: main() never leaves its while loop by an exception of the export
\* path: a poll_database that raises changes neither the cursor nor the
\* retry queue nor the sheet and is followed by the handler, the retry
\* check, the sleep and the next poll; a sink failure inside export_result
\* or retry_failed_exports leaves main() in the loop, the call having
\* raised nothing.
C35_LoopSurvivesErrors ==
    /\ [](main_pc \in LoopPositions \cup {"setup"} /\ main_exc = None)
    /\ [][/\ PollRaises
               => /\ main_last_id' = main_last_id
                  /\ _retry_queue' = _retry_queue
                  /\ sheet' = sheet
          /\ main_pc = "except" /\ main_pc' # main_pc => main_pc' = "retry_check"
          /\ main_pc = "retry_check" /\ main_pc' # main_pc => main_pc' = "sleep"
          /\ main_pc = "sleep" /\ main_pc' # main_pc => main_pc' = "poll"
          /\ SinkFails => ~exp'.raised /\ main_pc' \in {"advance", "sleep"}
         ]_vars

\* a poll_database raised in an iteration after the first, with the cursor
\* at 1 and a record in the retry queue
C35_Witness ==
    /\ main_pc = "except"
    /\ new_results = <<>>
    /\ main_last_id = 1
    /\ Len(_retry_queue) = 1

\* a retry pass in which the sink failed again has left the loop asleep
C35_WitnessSinkFails ==
    /\ main_pc = "sleep"
    /\ exp.kind = "retry_failed_exports"
    /\ Len(exp.answers) > 0 /\ exp.answers[1] # "ok"
    /\ _retry_queue # <<>>

(***************************************************************************)
(* Authentication after a failed start                                     *)

\* the exporter runs without a worksheet: authenticate() failed at start
Unauthenticated == main_pc \in LoopPositions /\ _worksheet = None

\* C36 as claimed: when authenticate() failed at the start of the service
\* and the sink then accepts every call, the exporter gets its worksheet on
\* a later poll, and the records queued meanwhile reach the sheet.
C36_AuthenticationRetried ==
    /\ (Unauthenticated /\ sink_ok) ~> (_worksheet # None)
    /\ (Unauthenticated /\ sink_ok /\ _retry_queue # <<>>) ~> (DataRows(sheet) # {})

\* what holds: without a worksheet nothing is ever appended, and the
\* exporter never gets a worksheet after the start
C36_NeverAuthenticated ==
    [][Unauthenticated => _worksheet' = None /\ sheet' = sheet]_vars

(***************************************************************************)
(* At-least-once export                                                    *)

\* the record of a stored row, as a poll returns it
PolledRecord(row) == _row_to_result(row)

InQueue(r) == \E k \in 1..Len(_retry_queue) : _retry_queue[k] = r
InSheet(r) == \E k \in 1..Len(sheet) : sheet[k] = SheetRow(r)

\* how many records the polls have handed to export_result
RECURSIVE HandedUpTo(_)
HandedUpTo(n) == IF n = 0 THEN 0 ELSE handed_count[n] + HandedUpTo(n - 1)
HandedTotal == HandedUpTo(MaxSeq)

\* C37: within one run of the exporter every stored record up to the cursor
\* is in the retry queue or has its row in the sheet, and of all the records
\* the polls have returned, those deleted from the store since included,
\* each one handed to export_result is a row of the sheet or an entry of the
\* retry queue: none is dropped. This holds at the iteration boundaries and
\* between them.
C37_AtLeastOnce ==
    /\ \A row \in speed_tests :
          row.id <= main_last_id => InQueue(PolledRecord(row)) \/ InSheet(PolledRecord(row))
    /\ forwarded = HandedTotal
    /\ Cardinality(DataRows(sheet)) + Len(_retry_queue) >= forwarded

\* at an iteration boundary with the cursor at 2, one polled record is in
\* the sheet and the other in the retry queue, after a retry pass
C37_Witness ==
    /\ main_pc = "sleep"
    /\ main_last_id = 2
    /\ exp.kind = "retry_failed_exports"
    /\ Len(_retry_queue) = 1
    /\ Cardinality(DataRows(sheet)) = 1
    /\ Cardinality(speed_tests) = 2

(***************************************************************************)
(* No duplicate export within one run                                      *)

\* how often the sheet has the row of record r, and the queue record r
TimesInSheet(r) == Cardinality({k \in 1..Len(sheet) : sheet[k] = SheetRow(r)})
TimesInQueue(r) == Cardinality({k \in 1..Len(_retry_queue) : _retry_queue[k] = r})

\* no row was deleted and no two stored records have the same timestamp, so
\* that the row of a record in the sheet is that record's
RowsTellRecords ==
    /\ Cardinality(speed_tests) = sqlite_sequence
    /\ \A a, b \in speed_tests : a.timestamp = b.timestamp => a = b

\* C38: with a sink whose append_row either appends the row or fails
\* without appending (the sink of the model), every record is handed to
\* export_result at most once, the rows of the sheet and the entries of the
\* retry queue are together exactly the records handed over, no record is
\* twice in the queue, and a polled record is either once in the sheet or
\* once in the queue, never both and never twice.
C38_NoDuplicateExport ==
    /\ \A i \in 1..MaxSeq : handed_count[i] <= 1
    /\ Cardinality(DataRows(sheet)) + Len(_retry_queue) = HandedTotal
    /\ \A j, k \in 1..Len(_retry_queue) :
          j # k => _retry_queue[j].id # _retry_queue[k].id
    /\ RowsTellRecords =>
          \A row \in speed_tests :
             /\ TimesInSheet(PolledRecord(row)) + TimesInQueue(PolledRecord(row)) <= 1
             /\ row.id <= main_last_id =>
                   TimesInSheet(PolledRecord(row)) + TimesInQueue(PolledRecord(row)) = 1

\* the record with id 1 was handed over once and is in the sheet once, the
\* cursor is past it, and the poll just made has returned the next record
\* only
C38_Witness ==
    /\ main_pc = "for"
    /\ exp.kind = "none"
    /\ main_last_id = 1
    /\ cursor_before = 1
    /\ Len(new_results) = 1
    /\ handed = <<>>
    /\ handed_count[1] = 1
    /\ Cardinality(DataRows(sheet)) = 1
    /\ _retry_queue = <<>>
    /\ RowsTellRecords

(***************************************************************************)
(* The callback after run() has ended                                      *)

\* run() has returned, or has raised the exception that interrupted its loop
RunEnded == run_pc \in {"returned", "raised"}

\* C39: when run() has left its wait loop, because it saw the stop event or
\* because the loop was interrupted, and has ended, the stop event is set,
\* the job scheduler is shut down and no invocation of the callback is in
\* progress; and no invocation begins after run() has ended, whatever fire
\* times pass. A run() that raised while building the job scheduler has
\* started none, and the callback is never invoked.
C39_NoCallbackAfterRun ==
    /\ [](RunEnded => _stop_event /\ sched_state = "stopped" /\ instances = 0)
    /\ [](run_pc = "build_raised" => sched_state # "running" /\ fired = <<>>)
    /\ [][RunEnded => fired' = fired /\ instances' = instances]_vars

\* run() was interrupted in its loop after one invocation and has raised; a
\* fire time has passed since and the callback was not invoked for it
C39_Witness ==
    /\ run_pc = "raised"
    /\ stop_calls = "never"
    /\ Len(fired) = 1
    /\ fired[1].time < next_run_time
    /\ next_run_time <= clock

(***************************************************************************)
(* Restart of the exporter process                                         *)

\* a step in which the exporter process is started again
RestartStep == main_pc \in LoopPositions /\ main_pc' = "setup"

\* a step in which poll_database returns
PollReturns == main_pc = "poll" /\ main_pc' = "for"

\* a step in which export_result is called with record r and the sink
\* accepts the append
ExportAccepted ==
    /\ main_pc = "for" /\ main_pc' = "advance"
    /\ exp'.kind = "export_result"
    /\ exp'.answer = "ok"

\* C40: a restart of the exporter process leaves store and sheet as they
\* are and starts with an empty retry queue and, when the loop begins, the
\* cursor 0; the first poll of the new process returns every record the
\* store holds, whether the old process had it in its queue, in the sheet or
\* nowhere yet, and every record a poll returned is handed to
\* export_result; an export the sink accepts appends the record's row also
\* when the sheet already has that row from before the restart.
C40_RestartExportsAgain ==
    /\ [](main_pc \in {"retry_check", "sleep"} => handed = new_results)
    /\ [][/\ RestartStep
               => /\ _retry_queue' = <<>>
                  /\ speed_tests' = speed_tests
                  /\ sheet' = sheet
          /\ main_pc = "setup" /\ main_pc' # main_pc
               => main_pc' = "poll" /\ main_last_id' = 0 /\ _retry_queue' = <<>>
          /\ PollReturns /\ main_last_id = 0
               => /\ IdSet(new_results') = {row.id : row \in speed_tests}
                  /\ Len(new_results') = Cardinality(speed_tests)
          /\ ExportAccepted
               => /\ exp'.result = new_results[Len(handed) + 1]
                  /\ sheet' = Append(sheet, SheetRow(exp'.result))
         ]_vars

\* after a restart the record with id 1, whose row the old process had
\* appended, was polled from cursor 0, handed over a second time and is in
\* the sheet twice
C40_Witness ==
    /\ main_pc = "advance"
    /\ cursor_before = 0
    /\ handed_count[1] = 2
    /\ exp.kind = "export_result" /\ exp.answer = "ok"
    /\ Cardinality(DataRows(exp.sheet_before)) = 1
    /\ TimesInSheet(new_results[1]) = 2

\* after a restart the record with id 1, which the old process had in its
\* retry queue only, was polled from cursor 0 and is appended to the sheet
C40_WitnessLostQueue ==
    /\ main_pc = "advance"
    /\ cursor_before = 0
    /\ handed_count[1] = 2
    /\ exp.kind = "export_result" /\ exp.answer = "ok"
    /\ DataRows(exp.sheet_before) = {}
    /\ TimesInSheet(new_results[1]) = 1
    /\ _retry_queue = <<>>

====
